---------------------------- MODULE Spec2Model ----------------------------
(***************************************************************************)
(* A model of clean_cli: the command tree built by CliBuilder and          *)
(* CommandBuilder, the tokenizer split_line, the coercion parse_arg and    *)
(* the resolution loop of Cli::exec_line.                                  *)
(*                                                                         *)
(* Text is modelled as a sequence of characters, a character being a       *)
(* one-element string; map keys, tokens and lines are such sequences.      *)
(* Option<T> is the empty sequence (None) or a one-element sequence        *)
(* (Some).  A HashMap is a function whose domain is its key set.           *)
(*                                                                         *)
(* split_line is a lazy iterator and exec_line returns from inside the     *)
(* for loop, so the text after the token that is being processed is never  *)
(* read.  The model therefore reveals the line one word at a time: each    *)
(* loop iteration appends a word (and the whitespace after it, unless the  *)
(* line ends there) to `line` and pulls the iterator once.                 *)
(***************************************************************************)
EXTENDS Naturals, Integers, Sequences, FiniteSets, TLC

(***************************************************************************)
(* Option and HashMap                                                      *)
(***************************************************************************)
None == <<>>

Some(v) == <<v>>

IsSome(o) == Len(o) > 0

IsNone(o) == Len(o) = 0

Unwrap(o) == o[1]

EmptyMap == <<>>

MapGet(m, k) == IF k \in DOMAIN m THEN Some(m[k]) ELSE None

MapInsert(m, k, v) == [x \in (DOMAIN m) \cup {k} |-> IF x = k THEN v ELSE m[x]]

(***************************************************************************)
(* Text helpers (str::starts_with, str::strip_prefix, str::len)            *)
(***************************************************************************)
StartsWith(s, p) == Len(s) >= Len(p) /\ SubSeq(s, 1, Len(p)) = p

StripPrefix(s, p) == IF StartsWith(s, p) THEN Some(SubSeq(s, Len(p) + 1, Len(s))) ELSE None

\* char::is_whitespace, on the characters of the model's alphabet
IsWhitespace(c) == c \in {" ", "\t"}

\* the characters of the alphabet whose UTF-8 encoding takes two bytes
TwoByteChars == {"e'"}

\* char::len_utf8
Width(c) == IF c \in TwoByteChars THEN 2 ELSE 1

RECURSIVE ByteLen(_)
\* str::len: the length of a text in bytes
ByteLen(s) == IF s = <<>> THEN 0 ELSE Width(Head(s)) + ByteLen(Tail(s))

RECURSIVE SliceFrom(_, _, _, _)
\* the characters of s (whose first character sits at byte offset off)
\* lying at byte offsets b <= o < e
SliceFrom(s, off, b, e) ==
    IF s = <<>> \/ off >= e THEN <<>>
    ELSE IF off >= b THEN <<Head(s)>> \o SliceFrom(Tail(s), off + Width(Head(s)), b, e)
    ELSE SliceFrom(Tail(s), off + Width(Head(s)), b, e)

\* &line[b..e]
Slice(line, b, e) == SliceFrom(line, 0, b, e)

(***************************************************************************)
(* Parameters (parameter.rs) and add_parameter (command.rs)                *)
(***************************************************************************)
ArgTypes == {"Bool", "Int", "Float", "String"}

\* Parameter::with_name: a ParameterBuilder with the default type, Bool
ParameterWithName(name) ==
    [name |-> name, aliases |-> <<>>, description |-> None, value_type |-> "Bool"]

\* ParameterBuilder::value_type
ParamValueType(pb, t) == [pb EXCEPT !.value_type = t]

\* ParameterBuilder::alias
ParamAlias(pb, a) == [pb EXCEPT !.aliases = Append(@, a)]

\* the frozen Parameter record (command.rs, add_parameter)
MakeParameter(pb) ==
    [name |-> pb.name, value_type |-> pb.value_type,
     description |-> IF IsSome(pb.description) THEN Unwrap(pb.description) ELSE ""]

RECURSIVE InsertAliases(_, _, _)
\* `while let Some(alias) = aliases.pop() { map.insert(alias, node) }`
InsertAliases(map, aliases, node) ==
    IF aliases = <<>> THEN map
    ELSE InsertAliases(MapInsert(map, aliases[Len(aliases)], node),
                       SubSeq(aliases, 1, Len(aliases) - 1), node)

\* add_parameter: panics only when the canonical name is already a key
AddParameter(parameters, pb) ==
    IF pb.name \in DOMAIN parameters
    THEN [panic |-> TRUE, parameters |-> parameters]
    ELSE [panic |-> FALSE,
          parameters |-> InsertAliases(MapInsert(parameters, pb.name, MakeParameter(pb)),
                                       pb.aliases, MakeParameter(pb))]

(***************************************************************************)
(* CommandBuilder (command.rs).  `panic` records that a builder call       *)
(* panicked, after which no builder value exists in the program;           *)
(* `registered` is the history of the `parameter` calls, which the program *)
(* does not keep (it keeps only the resulting map).                        *)
(***************************************************************************)
\* CommandBuilder::with_name
WithName(name) ==
    [name |-> name, aliases |-> <<>>, subcommands |-> <<>>, value |-> None,
     description |-> None, parameters |-> EmptyMap, handler |-> None, panic |-> FALSE,
     registered |-> <<>>]

\* CommandBuilder::alias
Alias(cb, a) == [cb EXCEPT !.aliases = Append(@, a)]

\* CommandBuilder::subcommand
Subcommand(cb, sub) == [cb EXCEPT !.subcommands = Append(@, sub)]

\* CommandBuilder::parameter
ParameterOf(cb, pb) ==
    [cb EXCEPT !.parameters = AddParameter(cb.parameters, pb).parameters,
               !.panic = @ \/ AddParameter(cb.parameters, pb).panic,
               !.registered = Append(@, pb)]

\* CommandBuilder::handler
Handler(cb, f) == [cb EXCEPT !.handler = Some(f)]

\* CommandBuilder::use_value
UseValue(cb, t) == [cb EXCEPT !.value = Some(t)]

\* CommandBuilder::description
Description(cb, text) == [cb EXCEPT !.description = Some(text)]

\* the builder of the help pseudo-command
HelpBuilder == Description(Handler(WithName(<<"h", "e", "l", "p">>), "help_handler"), "This help")

\* Command { ..Default::default() }
DefaultCommand ==
    [subcommands |-> EmptyMap, value |-> None, description |-> None,
     parameters |-> EmptyMap, exec |-> None]

RECURSIVE BuildCommand(_, _)
RECURSIVE AddCommand(_, _, _)
RECURSIVE AddCommands(_, _, _)

\* `while let Some(b) = builders.pop() { add_command(&mut commands, b, ..) }`
AddCommands(acc, builders, need_print_help) ==
    IF builders = <<>> \/ acc.panic THEN acc
    ELSE AddCommands(AddCommand(acc.commands, builders[Len(builders)], need_print_help),
                     SubSeq(builders, 1, Len(builders) - 1), need_print_help)

\* CommandBuilder::build_subcommands
BuildSubcommands(subcommands, need_print_help) ==
    LET added == AddCommands([panic |-> FALSE, commands |-> EmptyMap],
                             subcommands, need_print_help)
    IN  IF added.panic THEN added
        ELSE IF need_print_help /\ Len(subcommands) > 0
             THEN AddCommand(added.commands, HelpBuilder, need_print_help)
             ELSE added

\* BuildCommand asking every command for a value type or a handler
BuildCommandNeedsHandlerOrValue(cb, need_print_help) ==
    IF cb.panic \/ (IsNone(cb.value) /\ IsNone(cb.handler))
    THEN [panic |-> TRUE, command |-> DefaultCommand]
    ELSE LET subs == BuildSubcommands(cb.subcommands, need_print_help)
         IN  [panic |-> subs.panic,
              command |-> [subcommands |-> subs.commands, value |-> cb.value,
                           description |-> cb.description,
                           parameters |-> cb.parameters, exec |-> cb.handler]]

\* CommandBuilder::build
BuildCommand(cb, need_print_help) ==
    IF cb.panic \/ (IsNone(cb.value) /\ IsNone(cb.handler) /\ cb.subcommands = <<>>)
    THEN [panic |-> TRUE, command |-> DefaultCommand]
    ELSE LET subs == BuildSubcommands(cb.subcommands, need_print_help)
         IN  [panic |-> subs.panic,
              command |-> [subcommands |-> subs.commands, value |-> cb.value,
                           description |-> cb.description,
                           parameters |-> cb.parameters, exec |-> cb.handler]]

\* add_command: panics only when the canonical name is already a key
AddCommand(commands, cb, need_print_help) ==
    IF cb.name \in DOMAIN commands
    THEN [panic |-> TRUE, commands |-> commands]
    ELSE LET built == BuildCommand(cb, need_print_help)
         IN  [panic |-> built.panic,
              commands |-> InsertAliases(MapInsert(commands, cb.name, built.command),
                                         cb.aliases, built.command)]

(***************************************************************************)
(* CliBuilder (cli.rs)                                                     *)
(***************************************************************************)
\* Cli::builder
CliBuilderNew ==
    [commands |-> <<>>, need_print_error |-> FALSE, need_print_help |-> FALSE]

\* CliBuilder::command
CommandOf(b, cb) == [b EXCEPT !.commands = Append(@, cb)]

\* CliBuilder::print_error
PrintError(b, enable) == [b EXCEPT !.need_print_error = enable]

\* CliBuilder::print_help
PrintHelp(b, enable) == [b EXCEPT !.need_print_help = enable]

\* CliBuilder::build
BuildCli(b) ==
    LET added == AddCommands([panic |-> FALSE, commands |-> EmptyMap],
                             b.commands, b.need_print_help)
        all == IF added.panic \/ ~b.need_print_help THEN added
               ELSE AddCommand(added.commands, HelpBuilder, b.need_print_help)
    IN  [panic |-> all.panic,
         root |-> [name |-> <<"r", "o", "o", "t">>,
                   command |-> [DefaultCommand EXCEPT !.subcommands = all.commands]],
         need_print_help |-> b.need_print_help,
         need_print_error |-> b.need_print_error]

\* Cli::commands
Commands(c) == c.root.command.subcommands

(***************************************************************************)
(* split_line (cli.rs): a lazy iterator over the characters of the line.   *)
(* Offsets are byte offsets, as char_indices yields them.                  *)
(***************************************************************************)
EndWord == [tag |-> "EndWord", start |-> 0, quote |-> None]

StartWord(start, quote) == [tag |-> "StartWord", start |-> start, quote |-> quote]

\* a yielded (token, Span) pair; the span borrows the line and keeps offsets
Item(line, begin, end) == [arg |-> Slice(line, begin, end), span |-> [begin |-> begin, end |-> end]]

\* NonSpaceArm starting a quoted word at the quote itself
NonSpaceArmKeepsQuote(line, st, i, c) ==
    IF st.tag = "EndWord"
    THEN LET has_quote == c \in {"'", "\""}
         IN  [result |-> None,
              state |-> StartWord(i, IF has_quote THEN Some(c) ELSE None)]
    ELSE IF IsSome(st.quote) /\ Unwrap(st.quote) = c
         THEN [result |-> Some(Item(line, st.start, i)), state |-> EndWord]
         ELSE [result |-> None, state |-> st]

\* the arm of the closure for a non-whitespace character, before the
\* end-of-line test
NonSpaceArm(line, st, i, c) ==
    IF st.tag = "EndWord"
    THEN LET has_quote == c \in {"'", "\""}
         IN  [result |-> None,
              state |-> StartWord(IF has_quote THEN i + 1 ELSE i,
                                  IF has_quote THEN Some(c) ELSE None)]
    ELSE IF IsSome(st.quote) /\ Unwrap(st.quote) = c
         THEN [result |-> Some(Item(line, st.start, i)), state |-> EndWord]
         ELSE [result |-> None, state |-> st]

\* the end-of-line test of the closure: `if line_len == i + 1`
EndOfLineArm(line, line_len, r, i) ==
    IF line_len = i + 1 /\ r.state.tag = "StartWord"
    THEN [r EXCEPT !.result = Some(Item(line, r.state.start, line_len))]
    ELSE r

\* the closure given to filter_map, for the character c at byte offset i
SplitClosure(line, line_len, st, i, c) ==
    IF ~IsWhitespace(c)
    THEN EndOfLineArm(line, line_len, NonSpaceArm(line, st, i, c), i)
    ELSE IF st.tag = "StartWord" /\ IsNone(st.quote)
         THEN [result |-> Some(Item(line, st.start, i)), state |-> EndWord]
         ELSE [result |-> None, state |-> st]

\* the iterator before its first pull: char index k (from 1), byte offset i
IterStart == [k |-> 1, i |-> 0, st |-> EndWord]

RECURSIVE IterNext(_, _, _)
\* Iterator::next of the filter_map: runs the closure until it yields
IterNext(line, line_len, it) ==
    IF it.k > Len(line) THEN [item |-> None, it |-> it]
    ELSE LET c == line[it.k]
             r == SplitClosure(line, line_len, it.st, it.i, c)
             nx == [k |-> it.k + 1, i |-> it.i + Width(c), st |-> r.state]
         IN  IF IsSome(r.result) THEN [item |-> r.result, it |-> nx]
             ELSE IterNext(line, line_len, nx)

RECURSIVE Collect(_, _)
Collect(line, it) ==
    LET n == IterNext(line, ByteLen(line), it)
    IN  IF IsNone(n.item) THEN <<>> ELSE <<Unwrap(n.item)>> \o Collect(line, n.it)

\* split_line(line).collect()
SplitLine(line) == Collect(line, IterStart)

(***************************************************************************)
(* parse_arg (cli.rs).  An Int value is kept as sign and decimal magnitude *)
(* (no leading zeros), which is exact over the whole i64 range; a Float    *)
(* value is kept as sign, significant decimal digits and decimal exponent, *)
(* which identifies the f64 for texts of up to 15 significant digits.      *)
(***************************************************************************)
Digits == {"0", "1", "2", "3", "4", "5", "6", "7", "8", "9"}

DigitVal(c) ==
    CASE c = "0" -> 0 [] c = "1" -> 1 [] c = "2" -> 2 [] c = "3" -> 3 [] c = "4" -> 4
      [] c = "5" -> 5 [] c = "6" -> 6 [] c = "7" -> 7 [] c = "8" -> 8 [] c = "9" -> 9

AllDigits(s) == \A k \in 1..Len(s) : s[k] \in Digits

RECURSIVE StripZeros(_)
\* the magnitude without leading zeros; zero is the single digit 0
StripZeros(ds) ==
    IF Len(ds) > 1 /\ Head(ds) = "0" THEN StripZeros(Tail(ds)) ELSE ds

RECURSIVE LexLE(_, _)
LexLE(a, b) ==
    IF a = <<>> THEN TRUE
    ELSE IF b = <<>> THEN FALSE
    ELSE IF DigitVal(Head(a)) # DigitVal(Head(b)) THEN DigitVal(Head(a)) < DigitVal(Head(b))
    ELSE LexLE(Tail(a), Tail(b))

\* a <= b for magnitudes without leading zeros
MagLE(a, b) == Len(a) < Len(b) \/ (Len(a) = Len(b) /\ LexLE(a, b))

\* the decimal digits of i64::MAX, 9223372036854775807
I64MaxMag ==
    <<"9", "2", "2", "3", "3", "7", "2", "0", "3", "6", "8", "5", "4", "7", "7", "5", "8", "0", "7">>

\* the decimal digits of the magnitude of i64::MIN, 9223372036854775808
I64MinMag ==
    <<"9", "2", "2", "3", "3", "7", "2", "0", "3", "6", "8", "5", "4", "7", "7", "5", "8", "0", "8">>

ArgBool(b) == [t |-> "Bool", v |-> b]

ArgInt(neg, mag) == [t |-> "Int", v |-> [neg |-> neg /\ mag # <<"0">>, mag |-> mag]]

ArgFloat(f) == [t |-> "Float", v |-> f]

ArgString(s) == [t |-> "String", v |-> s]

ParseOk(value) == [ok |-> TRUE, value |-> value]

ParseErr(details) == [ok |-> FALSE, details |-> details]

\* I64FromStr with the bound of the positive numbers on both sides
I64FromStrSymmetric(arg) ==
    LET neg == StartsWith(arg, <<"-">>)
        ds == IF neg \/ StartsWith(arg, <<"+">>) THEN Tail(arg) ELSE arg
    IN  IF ds = <<>> \/ ~AllDigits(ds) THEN ParseErr("Parse int error: invalid digit")
        ELSE IF ~MagLE(StripZeros(ds), I64MaxMag)
             THEN ParseErr("Parse int error: overflow")
             ELSE ParseOk(ArgInt(neg, StripZeros(ds)))

\* i64::from_str
I64FromStr(arg) ==
    LET neg == StartsWith(arg, <<"-">>)
        ds == IF neg \/ StartsWith(arg, <<"+">>) THEN Tail(arg) ELSE arg
    IN  IF ds = <<>> \/ ~AllDigits(ds) THEN ParseErr("Parse int error: invalid digit")
        ELSE IF ~MagLE(StripZeros(ds), IF neg THEN I64MinMag ELSE I64MaxMag)
             THEN ParseErr("Parse int error: overflow")
             ELSE ParseOk(ArgInt(neg, StripZeros(ds)))

\* the index of the first character of s that is in set cs, or 0
FirstIn(s, cs) ==
    IF \E k \in 1..Len(s) : s[k] \in cs
    THEN CHOOSE k \in 1..Len(s) : s[k] \in cs /\ \A j \in 1..(k - 1) : s[j] \notin cs
    ELSE 0

RECURSIVE DecVal(_)
\* the value of a short digit text (an exponent)
DecVal(ds) == IF ds = <<>> THEN 0 ELSE DecVal(SubSeq(ds, 1, Len(ds) - 1)) * 10 + DigitVal(ds[Len(ds)])

RECURSIVE StripTrailingZeros(_)
StripTrailingZeros(ds) ==
    IF ds # <<>> /\ ds[Len(ds)] = "0" THEN StripTrailingZeros(SubSeq(ds, 1, Len(ds) - 1)) ELSE ds

RECURSIVE StripLeadingZeros(_)
StripLeadingZeros(ds) ==
    IF ds # <<>> /\ Head(ds) = "0" THEN StripLeadingZeros(Tail(ds)) ELSE ds

\* the f64 nearest to  digits * 10^exp: +-inf beyond f64::MAX (about
\* 1.8e308, leading digit at decimal position 309), zero below the least
\* subnormal (about 4.9e-324, position -323)
FloatOf(neg, digits, exp) ==
    LET sig == StripTrailingZeros(StripLeadingZeros(digits))
        e == exp + (Len(StripLeadingZeros(digits)) - Len(sig))
        pos == Len(sig) + e
    IN  IF sig = <<>> \/ pos < -323 THEN [kind |-> "finite", neg |-> neg, digits |-> <<>>, exp |-> 0]
        ELSE IF pos > 309
                \/ (pos = 309 /\ ~LexLE(sig, <<"1", "7", "9", "7", "6", "9", "3", "1", "3",
                                                     "4", "8", "6", "2", "3", "1", "5", "7">>))
             THEN [kind |-> "inf", neg |-> neg, digits |-> <<>>, exp |-> 0]
             ELSE [kind |-> "finite", neg |-> neg, digits |-> sig, exp |-> e]

\* f64::from_str, on lower-case text: [sign] (inf | infinity | nan |
\* digits [. digits] [e [sign] digits]) with at least one mantissa digit
F64FromStr(arg) ==
    LET neg == StartsWith(arg, <<"-">>)
        body == IF neg \/ StartsWith(arg, <<"+">>) THEN Tail(arg) ELSE arg
        ePos == FirstIn(body, {"e", "E"})
        mant == IF ePos = 0 THEN body ELSE SubSeq(body, 1, ePos - 1)
        expo == IF ePos = 0 THEN <<>> ELSE SubSeq(body, ePos + 1, Len(body))
        eneg == StartsWith(expo, <<"-">>)
        eds == IF eneg \/ StartsWith(expo, <<"+">>) THEN Tail(expo) ELSE expo
        dot == FirstIn(mant, {"."})
        ip == IF dot = 0 THEN mant ELSE SubSeq(mant, 1, dot - 1)
        fp == IF dot = 0 THEN <<>> ELSE SubSeq(mant, dot + 1, Len(mant))
    IN  IF body \in {<<"i", "n", "f">>, <<"i", "n", "f", "i", "n", "i", "t", "y">>}
        THEN ParseOk(ArgFloat([kind |-> "inf", neg |-> neg, digits |-> <<>>, exp |-> 0]))
        ELSE IF body = <<"n", "a", "n">>
        THEN ParseOk(ArgFloat([kind |-> "nan", neg |-> neg, digits |-> <<>>, exp |-> 0]))
        ELSE IF ~AllDigits(ip) \/ ~AllDigits(fp) \/ ip \o fp = <<>>
                \/ (ePos # 0 /\ (eds = <<>> \/ ~AllDigits(eds)))
        THEN ParseErr("Parse float error: invalid float literal")
        ELSE ParseOk(ArgFloat(FloatOf(neg, ip \o fp,
                                      (IF eneg THEN 0 - DecVal(eds) ELSE DecVal(eds)) - Len(fp))))

\* the guard of parse_arg, as written: `!(t != Int || t != Float)`
NotAValueGuard(arg_type, arg) ==
    StartsWith(arg, <<"-">>) /\ ~(arg_type # "Int" \/ arg_type # "Float")

\* ParseArg taking every text that is not a true text as false
ParseArgLenientBool(arg_type, arg) ==
    IF NotAValueGuard(arg_type, arg) THEN ParseErr("Seems it is not a value")
    ELSE CASE arg_type = "Bool" ->
                IF arg \in {<<"t", "r", "u", "e">>, <<"y", "e", "s">>, <<"1">>, <<"o", "n">>}
                THEN ParseOk(ArgBool(TRUE))
                ELSE ParseOk(ArgBool(FALSE))
           [] arg_type = "Int" -> I64FromStr(arg)
           [] arg_type = "Float" -> F64FromStr(arg)
           [] arg_type = "String" -> ParseOk(ArgString(arg))

\* parse_arg
ParseArg(arg_type, arg) ==
    IF NotAValueGuard(arg_type, arg) THEN ParseErr("Seems it is not a value")
    ELSE CASE arg_type = "Bool" ->
                IF arg \in {<<"t", "r", "u", "e">>, <<"y", "e", "s">>, <<"1">>, <<"o", "n">>}
                THEN ParseOk(ArgBool(TRUE))
                ELSE IF arg \in {<<"f", "a", "l", "s", "e">>, <<"n", "o">>, <<"0">>, <<"o", "f", "f">>}
                     THEN ParseOk(ArgBool(FALSE))
                     ELSE ParseErr("is not a boolean value")
           [] arg_type = "Int" -> I64FromStr(arg)
           [] arg_type = "Float" -> F64FromStr(arg)
           [] arg_type = "String" -> ParseOk(ArgString(arg))

(***************************************************************************)
(* Context (context.rs) and the resolution loop of Cli::exec_line (cli.rs) *)
(***************************************************************************)
\* ContextUnit { command: (name, node), parameters, value }
ContextUnit(name, node) ==
    [command |-> [name |-> name, node |-> node], parameters |-> EmptyMap, value |-> None]

ReadFirstState == [tag |-> "ReadFirst", params |-> <<>>]

ReadNextState == [tag |-> "ReadNext", params |-> <<>>]

ParametersReadedState(params) == [tag |-> "ParametersReaded", params |-> params]

\* EntryLocals with an empty unit list and the frame index at 0
EntryLocalsNoRoot(c) ==
    [ctx |-> [units |-> <<>>], state |-> ReadFirstState, pos |-> 0, ret |-> None]

\* the locals of exec_line on entry to the for loop; ret is the early return
EntryLocals(c) ==
    [ctx |-> [units |-> <<ContextUnit(c.root.name, c.root.command)>>],
     state |-> ReadFirstState, pos |-> 1, ret |-> None]

\* enum Error
Errors ==
    {"NotCommand", "NotParameter", "CantExecuteParameter", "ValueParseFailed",
     "ParameterValueMissed", "ParserError", "CantExecuteCommand"}

\* `return self.make_error(error, ..)`
Fail(L, error) == [L EXCEPT !.ret = Some(error)]

\* ctx.units[pos], pos counting from 0
UnitAt(L) == L.ctx.units[L.pos + 1]

\* last_unit.parameters.insert(p.name.clone(), (p.clone(), value))
Bind(parameters, p, value) == MapInsert(parameters, p.name, [param |-> p, value |-> value])

\* ReadFirstArm with the command lookup before the dash test
ReadFirstArmLookupFirst(c, L, arg) ==
    IF IsSome(MapGet(Commands(c), arg))
    THEN [L EXCEPT !.ctx.units = Append(@, ContextUnit(arg, Unwrap(MapGet(Commands(c), arg)))),
                   !.state = ReadNextState]
    ELSE IF StartsWith(arg, <<"-", "-">>) \/ StartsWith(arg, <<"-">>)
    THEN Fail(L, "CantExecuteParameter")
    ELSE Fail(L, "NotCommand")

\* the ReadFirst arm
ReadFirstArm(c, L, arg) ==
    IF StartsWith(arg, <<"-", "-">>) \/ StartsWith(arg, <<"-">>)
    THEN Fail(L, "CantExecuteParameter")
    ELSE IF IsSome(MapGet(Commands(c), arg))
         THEN [L EXCEPT !.ctx.units = Append(@, ContextUnit(arg, Unwrap(MapGet(Commands(c), arg)))),
                        !.state = ReadNextState]
         ELSE Fail(L, "NotCommand")

\* LongFlagArm binding a Bool parameter under the key typed
LongFlagArmBindsTypedKey(L, cmd, name) ==
    LET p == MapGet(cmd.parameters, name)
    IN  IF IsNone(p) THEN Fail(L, "NotParameter")
        ELSE IF Unwrap(p).value_type = "Bool"
             THEN [L EXCEPT !.ctx.units[L.pos + 1].parameters =
                                MapInsert(@, name, [param |-> Unwrap(p), value |-> ArgBool(TRUE)])]
             ELSE [L EXCEPT !.state = ParametersReadedState(<<Unwrap(p)>>)]

\* LongFlagArm queueing a Bool parameter like any other
LongFlagArmQueuesBool(L, cmd, name) ==
    LET p == MapGet(cmd.parameters, name)
    IN  IF IsNone(p) THEN Fail(L, "NotParameter")
        ELSE [L EXCEPT !.state = ParametersReadedState(<<Unwrap(p)>>)]

\* the ReadNext arm for `--name`
LongFlagArm(L, cmd, name) ==
    LET p == MapGet(cmd.parameters, name)
    IN  IF IsNone(p) THEN Fail(L, "NotParameter")
        ELSE IF Unwrap(p).value_type = "Bool"
             THEN [L EXCEPT !.ctx.units[L.pos + 1].parameters = Bind(@, Unwrap(p), ArgBool(TRUE))]
             ELSE [L EXCEPT !.state = ParametersReadedState(<<Unwrap(p)>>)]

RECURSIVE ClusterLoopSkipsUnknown(_, _, _, _)
\* ClusterLoop passing over the characters that are no parameter key
ClusterLoopSkipsUnknown(cmd, parameters, params, chars) ==
    IF chars = <<>> THEN [err |-> FALSE, parameters |-> parameters, params |-> params]
    ELSE LET p == MapGet(cmd.parameters, <<Head(chars)>>)
         IN  IF IsNone(p) THEN ClusterLoopSkipsUnknown(cmd, parameters, params, Tail(chars))
             ELSE IF Unwrap(p).value_type = "Bool"
                  THEN ClusterLoopSkipsUnknown(cmd, Bind(parameters, Unwrap(p), ArgBool(TRUE)), params, Tail(chars))
                  ELSE ClusterLoopSkipsUnknown(cmd, parameters, Append(params, Unwrap(p)), Tail(chars))

RECURSIVE ClusterLoop(_, _, _, _)
\* `for a in arg.chars()`: Bool characters bind at once, the others queue up,
\* an unknown character returns
ClusterLoop(cmd, parameters, params, chars) ==
    IF chars = <<>> THEN [err |-> FALSE, parameters |-> parameters, params |-> params]
    ELSE LET p == MapGet(cmd.parameters, <<Head(chars)>>)
         IN  IF IsNone(p) THEN [err |-> TRUE, parameters |-> parameters, params |-> params]
             ELSE IF Unwrap(p).value_type = "Bool"
                  THEN ClusterLoop(cmd, Bind(parameters, Unwrap(p), ArgBool(TRUE)), params, Tail(chars))
                  ELSE ClusterLoop(cmd, parameters, Append(params, Unwrap(p)), Tail(chars))

RECURSIVE Reverse(_)
Reverse(q) == IF q = <<>> THEN <<>> ELSE Reverse(Tail(q)) \o <<Head(q)>>

\* ShortClusterArm with the queue filled by push_front
ShortClusterArmPushFront(L, cmd, chars) ==
    LET r == ClusterLoop(cmd, UnitAt(L).parameters, <<>>, chars)
        bound == [L EXCEPT !.ctx.units[L.pos + 1].parameters = r.parameters]
    IN  IF r.err THEN Fail(bound, "NotParameter")
        ELSE IF r.params # <<>> THEN [bound EXCEPT !.state = ParametersReadedState(Reverse(r.params))]
        ELSE bound

\* ShortClusterArm entering ParametersReaded whatever the queue holds
ShortClusterArmAlwaysPending(L, cmd, chars) ==
    LET r == ClusterLoop(cmd, UnitAt(L).parameters, <<>>, chars)
        bound == [L EXCEPT !.ctx.units[L.pos + 1].parameters = r.parameters]
    IN  IF r.err THEN Fail(bound, "NotParameter")
        ELSE [bound EXCEPT !.state = ParametersReadedState(r.params)]

\* the ReadNext arm for `-xyz`
ShortClusterArm(L, cmd, chars) ==
    LET r == ClusterLoop(cmd, UnitAt(L).parameters, <<>>, chars)
        bound == [L EXCEPT !.ctx.units[L.pos + 1].parameters = r.parameters]
    IN  IF r.err THEN Fail(bound, "NotParameter")
        ELSE IF r.params # <<>> THEN [bound EXCEPT !.state = ParametersReadedState(r.params)]
        ELSE bound

\* SubcommandArm with `pos += 1` left out
SubcommandArmSamePos(L, arg, sub) ==
    [L EXCEPT !.ctx.units = Append(@, ContextUnit(arg, sub)),
              !.state = ReadNextState]

\* SubcommandArm putting the new unit in the place of the current one
SubcommandArmReplacesUnit(L, arg, sub) ==
    [L EXCEPT !.ctx.units[L.pos + 1] = ContextUnit(arg, sub),
              !.state = ReadNextState]

\* the ReadNext arm for a subcommand key
SubcommandArm(L, arg, sub) ==
    [L EXCEPT !.ctx.units = Append(@, ContextUnit(arg, sub)),
              !.pos = @ + 1,
              !.state = ReadNextState]

\* ValueArm that also empties the unit's parameter map
ValueArmClearsParameters(L, v, arg) ==
    IF ParseArg(v, arg).ok
    THEN [L EXCEPT !.ctx.units[L.pos + 1].value = Some(ParseArg(v, arg).value),
                   !.ctx.units[L.pos + 1].parameters = EmptyMap]
    ELSE Fail(L, "ValueParseFailed")

\* ValueArm storing the value in the unit of the first command
ValueArmOnFirstCommand(L, v, arg) ==
    IF ParseArg(v, arg).ok
    THEN [L EXCEPT !.ctx.units[2].value = Some(ParseArg(v, arg).value)]
    ELSE Fail(L, "ValueParseFailed")

\* the ReadNext arm for a positional value of type v
ValueArm(L, v, arg) ==
    IF ParseArg(v, arg).ok
    THEN [L EXCEPT !.ctx.units[L.pos + 1].value = Some(ParseArg(v, arg).value)]
    ELSE Fail(L, "ValueParseFailed")

\* ReadNextArm with the positional value tried before the subcommand lookup
ReadNextArmValueFirst(L, arg) ==
    LET cmd == UnitAt(L).command.node
    IN  IF IsSome(StripPrefix(arg, <<"-", "-">>))
        THEN LongFlagArm(L, cmd, Unwrap(StripPrefix(arg, <<"-", "-">>)))
        ELSE IF IsSome(StripPrefix(arg, <<"-">>))
        THEN ShortClusterArm(L, cmd, Unwrap(StripPrefix(arg, <<"-">>)))
        ELSE IF IsSome(cmd.value) /\ ParseArg(Unwrap(cmd.value), arg).ok
        THEN ValueArm(L, Unwrap(cmd.value), arg)
        ELSE IF IsSome(MapGet(cmd.subcommands, arg))
        THEN SubcommandArm(L, arg, Unwrap(MapGet(cmd.subcommands, arg)))
        ELSE IF IsSome(cmd.value)
        THEN ValueArm(L, Unwrap(cmd.value), arg)
        ELSE Fail(L, "NotCommand")

\* ReadNextArm with the subcommand lookup before the dash tests
ReadNextArmSubcommandFirst(L, arg) ==
    LET cmd == UnitAt(L).command.node
    IN  IF IsSome(MapGet(cmd.subcommands, arg))
        THEN SubcommandArm(L, arg, Unwrap(MapGet(cmd.subcommands, arg)))
        ELSE IF IsSome(StripPrefix(arg, <<"-", "-">>))
        THEN LongFlagArm(L, cmd, Unwrap(StripPrefix(arg, <<"-", "-">>)))
        ELSE IF IsSome(StripPrefix(arg, <<"-">>))
        THEN ShortClusterArm(L, cmd, Unwrap(StripPrefix(arg, <<"-">>)))
        ELSE IF IsSome(cmd.value)
        THEN ValueArm(L, Unwrap(cmd.value), arg)
        ELSE Fail(L, "NotCommand")

\* ReadNextArm taking a dash token that reads as a number for the value
\* of a command with a numeric value type
ReadNextArmNegativeNumber(L, arg) ==
    LET cmd == UnitAt(L).command.node
    IN  IF /\ StartsWith(arg, <<"-">>)
           /\ IsSome(cmd.value)
           /\ Unwrap(cmd.value) \in {"Int", "Float"}
           /\ ParseArg(Unwrap(cmd.value), arg).ok
        THEN ValueArm(L, Unwrap(cmd.value), arg)
        ELSE IF IsSome(StripPrefix(arg, <<"-", "-">>))
        THEN LongFlagArm(L, cmd, Unwrap(StripPrefix(arg, <<"-", "-">>)))
        ELSE IF IsSome(StripPrefix(arg, <<"-">>))
        THEN ShortClusterArm(L, cmd, Unwrap(StripPrefix(arg, <<"-">>)))
        ELSE IF IsSome(MapGet(cmd.subcommands, arg))
        THEN SubcommandArm(L, arg, Unwrap(MapGet(cmd.subcommands, arg)))
        ELSE IF IsSome(cmd.value)
        THEN ValueArm(L, Unwrap(cmd.value), arg)
        ELSE Fail(L, "NotCommand")

\* the ReadNext arm
ReadNextArm(L, arg) ==
    LET cmd == UnitAt(L).command.node
    IN  IF IsSome(StripPrefix(arg, <<"-", "-">>))
        THEN LongFlagArm(L, cmd, Unwrap(StripPrefix(arg, <<"-", "-">>)))
        ELSE IF IsSome(StripPrefix(arg, <<"-">>))
        THEN ShortClusterArm(L, cmd, Unwrap(StripPrefix(arg, <<"-">>)))
        ELSE IF IsSome(MapGet(cmd.subcommands, arg))
        THEN SubcommandArm(L, arg, Unwrap(MapGet(cmd.subcommands, arg)))
        ELSE IF IsSome(cmd.value)
        THEN ValueArm(L, Unwrap(cmd.value), arg)
        ELSE Fail(L, "NotCommand")

\* ParametersReadedArm coercing every value as a String
ParametersReadedArmAsString(L, arg) ==
    LET param == Head(L.state.params)
        rest == Tail(L.state.params)
        parsed == ParseArg("String", arg)
    IN  IF parsed.ok
        THEN [L EXCEPT !.ctx.units[L.pos + 1].parameters = Bind(@, param, parsed.value),
                       !.state = IF rest = <<>> THEN ReadNextState
                                 ELSE ParametersReadedState(rest)]
        ELSE Fail(L, "ValueParseFailed")

\* ParametersReadedArm keeping the value a parameter has already
ParametersReadedArmFirstWins(L, arg) ==
    LET param == Head(L.state.params)
        rest == Tail(L.state.params)
        parsed == ParseArg(param.value_type, arg)
    IN  IF parsed.ok
        THEN [L EXCEPT !.ctx.units[L.pos + 1].parameters =
                           IF param.name \in DOMAIN @ THEN @ ELSE Bind(@, param, parsed.value),
                       !.state = IF rest = <<>> THEN ReadNextState
                                 ELSE ParametersReadedState(rest)]
        ELSE Fail(L, "ValueParseFailed")

\* ParametersReadedArm refusing a token that starts with a dash
ParametersReadedArmRejectsDash(L, arg) ==
    LET param == Head(L.state.params)
        rest == Tail(L.state.params)
        parsed == ParseArg(param.value_type, arg)
    IN  IF parsed.ok /\ ~StartsWith(arg, <<"-">>)
        THEN [L EXCEPT !.ctx.units[L.pos + 1].parameters = Bind(@, param, parsed.value),
                       !.state = IF rest = <<>> THEN ReadNextState
                                 ELSE ParametersReadedState(rest)]
        ELSE Fail(L, "ValueParseFailed")

\* the ParametersReaded arm
ParametersReadedArm(L, arg) ==
    LET param == Head(L.state.params)
        rest == Tail(L.state.params)
        parsed == ParseArg(param.value_type, arg)
    IN  IF parsed.ok
        THEN [L EXCEPT !.ctx.units[L.pos + 1].parameters = Bind(@, param, parsed.value),
                       !.state = IF rest = <<>> THEN ReadNextState
                                 ELSE ParametersReadedState(rest)]
        ELSE Fail(L, "ValueParseFailed")

\* the body of the for loop: `match state`
LoopBody(c, L, arg) ==
    CASE L.state.tag = "ReadFirst" -> ReadFirstArm(c, L, arg)
      [] L.state.tag = "ReadNext" -> ReadNextArm(L, arg)
      [] L.state.tag = "ParametersReaded" -> ParametersReadedArm(L, arg)

RECURSIVE ForLoop(_, _, _)
\* `for (arg, span) in args`, left by an early return
ForLoop(c, L, tokens) ==
    IF tokens = <<>> \/ IsSome(L.ret) THEN L
    ELSE ForLoop(c, LoopBody(c, L, Head(tokens)), Tail(tokens))

\* PendingCheck that lets every pending queue through
PendingCheckNone(L) == None

\* the check of the pending queue after the loop: an error, or None
PendingCheck(L) ==
    IF L.state.tag # "ParametersReaded" THEN None
    ELSE IF Len(L.state.params) > 1 THEN Some("ParserError")
    ELSE IF L.state.params[Len(L.state.params)].value_type = "Bool" THEN None
    ELSE Some("ParameterValueMissed")

Ok(value) == [ok |-> TRUE, value |-> value]

Err(error) == [ok |-> FALSE, error |-> error]

\* T::Result::default()
DefaultResult == <<"default">>

\* what the handler f returns: help_handler returns R::default(), a
\* user's closure some value of its own
HandlerResult(f) == IF f = "help_handler" THEN DefaultResult ELSE <<"result of", f>>

\* AfterLoop returning the default result for a command without a handler
AfterLoopDefaultWhenNoHandler(L) ==
    IF IsSome(PendingCheck(L)) THEN [result |-> Err(Unwrap(PendingCheck(L))), call |-> None]
    ELSE IF L.ctx.units # <<>>
    THEN LET cmd == L.ctx.units[Len(L.ctx.units)].command.node
         IN  IF IsSome(cmd.exec)
             THEN [result |-> Ok(HandlerResult(Unwrap(cmd.exec))), call |-> cmd.exec]
             ELSE [result |-> Ok(DefaultResult), call |-> None]
    ELSE [result |-> Ok(DefaultResult), call |-> None]

\* AfterLoop taking the fall-through when no command was read
AfterLoopOkOnRoot(L) ==
    IF IsSome(PendingCheck(L)) THEN [result |-> Err(Unwrap(PendingCheck(L))), call |-> None]
    ELSE IF Len(L.ctx.units) > 1
    THEN LET cmd == L.ctx.units[Len(L.ctx.units)].command.node
         IN  IF IsSome(cmd.exec)
             THEN [result |-> Ok(HandlerResult(Unwrap(cmd.exec))), call |-> cmd.exec]
             ELSE [result |-> Err("CantExecuteCommand"), call |-> None]
    ELSE [result |-> Ok(DefaultResult), call |-> None]

\* the part of exec_line after the loop: the result, and the handler call
\* made (None or the handler)
AfterLoop(L) ==
    IF IsSome(PendingCheck(L)) THEN [result |-> Err(Unwrap(PendingCheck(L))), call |-> None]
    ELSE IF L.ctx.units # <<>>
    THEN LET cmd == L.ctx.units[Len(L.ctx.units)].command.node
         IN  IF IsSome(cmd.exec)
             THEN [result |-> Ok(HandlerResult(Unwrap(cmd.exec))), call |-> cmd.exec]
             ELSE [result |-> Err("CantExecuteCommand"), call |-> None]
    ELSE [result |-> Ok(DefaultResult), call |-> None]

\* exec_line on a line whose tokens are `tokens`: the result, the handler
\* called (or None) and the Context built
ExecTokens(c, tokens) ==
    LET L == ForLoop(c, EntryLocals(c), tokens)
    IN  IF IsSome(L.ret) THEN [result |-> Err(Unwrap(L.ret)), call |-> None, ctx |-> L.ctx]
        ELSE [result |-> AfterLoop(L).result, call |-> AfterLoop(L).call, ctx |-> L.ctx]

\* format_help / HelpFormatter::format: the listing of a node's subcommands
HelpOf(commands) ==
    [kind |-> "help", commands |-> [k \in DOMAIN commands |-> commands[k].description]]

\* what make_error prints
MakeErrorOutput(c, error) ==
    (IF c.need_print_error THEN <<[kind |-> "error", error |-> error]>> ELSE <<>>)
    \o (IF c.need_print_help THEN <<HelpOf(Commands(c))>> ELSE <<>>)

\* HandlerOutput with help_handler rendering the last unit, the help
\* command itself
HandlerOutputOfLast(f, context) ==
    IF f = "help_handler"
    THEN <<HelpOf(context.units[Len(context.units)].command.node.subcommands)>>
    ELSE <<>>

\* what a handler prints: help_handler renders the node of the unit before
\* the last one
HandlerOutput(f, context) ==
    IF f = "help_handler"
    THEN LET last == IF Len(context.units) >= 1 THEN Len(context.units) - 1 ELSE 0
             idx == IF last >= 1 THEN last - 1 ELSE 0
         IN  <<HelpOf(context.units[idx + 1].command.node.subcommands)>>
    ELSE <<>>

(***************************************************************************)
(* The command trees the model runs on, assembled as the repository's      *)
(* tests assemble theirs, and the words input lines are made of.           *)
(***************************************************************************)
s_cmd == <<"c", "m", "d">>

s_sub == <<"s", "u", "b">>

s_bool == <<"b", "o", "o", "l">>

s_int == <<"i", "n", "t">>

s_float == <<"f", "l", "o", "a", "t">>

s_string == <<"s", "t", "r", "i", "n", "g">>

s_flag == <<"f", "l", "a", "g">>

\* the four parameters of command_with_mixed_params (tests.rs)
MixedParams(cb) ==
    ParameterOf(ParameterOf(ParameterOf(ParameterOf(cb,
        ParamAlias(ParamAlias(ParamValueType(ParameterWithName(s_bool), "Bool"), <<"b">>), <<"b", "b">>)),
        ParamAlias(ParamAlias(ParamValueType(ParameterWithName(s_int), "Int"), <<"i">>), <<"i", "i">>)),
        ParamAlias(ParamAlias(ParamValueType(ParameterWithName(s_float), "Float"), <<"f">>), <<"f", "f">>)),
        ParamAlias(ParamAlias(ParamValueType(ParameterWithName(s_string), "String"), <<"s">>), <<"s", "s">>))

\* command_with_mixed_params_with_subcommand_with_mixed_params (tests.rs),
\* cmd having a handler of its own as in command_with_mixed_params
MixedBuilder ==
    CommandOf(CliBuilderNew,
        Subcommand(Handler(MixedParams(WithName(s_cmd)), "cmd_handler"),
                   Handler(MixedParams(WithName(s_sub)), "sub_handler")))

\* command_with_subcommand (tests.rs): cmd has no handler of its own
ContainerBuilder ==
    CommandOf(CliBuilderNew,
        Subcommand(WithName(s_cmd), Handler(WithName(s_sub), "sub_handler")))

\* a command with a subcommand `x` (alias `-x`), a Bool parameter with the
\* alias `x`, an Int parameter with the alias `n` and an Int value; it is
\* also registered under the aliases `-x` and `--`
ClashBuilder ==
    CommandOf(CliBuilderNew,
        Alias(Alias(
            Subcommand(
                UseValue(Handler(
                    ParameterOf(ParameterOf(WithName(s_cmd),
                        ParamAlias(ParameterWithName(s_flag), <<"x">>)),
                        ParamAlias(ParamValueType(ParameterWithName(s_int), "Int"), <<"n">>)),
                    "cmd_handler"), "Int"),
                Alias(Handler(WithName(<<"x">>), "x_handler"), <<"-", "x">>)),
            <<"-", "x">>), <<"-", "-">>))

\* a command whose two parameters were both given the alias `b`
CollideBuilder ==
    CommandOf(CliBuilderNew,
        Handler(ParameterOf(ParameterOf(WithName(s_cmd),
            ParamAlias(ParamValueType(ParameterWithName(s_bool), "Bool"), <<"b">>)),
            ParamAlias(ParamValueType(ParameterWithName(s_int), "Int"), <<"b">>)),
            "cmd_handler"))

\* sub_command (tests.rs): cmd takes a Bool value and has the subcommand
\* sub, here also registered under the alias `on`, a text a Bool value
\* can have
SubValueBuilder ==
    CommandOf(CliBuilderNew,
        Subcommand(UseValue(WithName(s_cmd), "Bool"),
                   Alias(Handler(UseValue(WithName(s_sub), "Int"), "sub_handler"), <<"o", "n">>)))

s_help == <<"h", "e", "l", "p">>

s_another_cmd == <<"a", "n", "o", "t", "h", "e", "r", "_", "c", "m", "d">>

\* sub_command_help (tests.rs): help is switched on; cmd takes a Bool value,
\* a Bool and an Int parameter and has the subcommand sub, which takes an
\* Int value; neither has a handler
HelpTreeBuilder ==
    CommandOf(CommandOf(PrintHelp(CliBuilderNew, TRUE),
        Subcommand(
            ParameterOf(ParameterOf(UseValue(WithName(s_cmd), "Bool"),
                ParamAlias(ParamAlias(ParamValueType(ParameterWithName(s_bool), "Bool"), <<"b">>), <<"b", "b">>)),
                ParamAlias(ParamAlias(ParamValueType(ParameterWithName(s_int), "Int"), <<"i">>), <<"i", "i">>)),
            Description(UseValue(WithName(s_sub), "Int"), "sub command"))),
        UseValue(WithName(s_another_cmd), "Bool"))

Builders ==
    {MixedBuilder, ContainerBuilder, ClashBuilder, CollideBuilder, SubValueBuilder,
     HelpTreeBuilder}

\* the trees the builder accepts
Clis == {BuildCli(b) : b \in {x \in Builders : ~BuildCli(x).panic}}

\* the words of input lines
Words ==
    { s_cmd, s_sub, <<"x">>,
      <<"-", "-">> \o s_bool, <<"-", "b">>,
      <<"-", "-">> \o s_int, <<"-", "-", "i", "i">>, <<"-", "i">>,
      <<"-", "s">>, <<"-", "b", "i", "s">>, <<"-", "b", "z">>,
      <<"-", "-", "x">>, <<"-", "x">>, <<"-", "n">>,
      <<"4", "2">>, <<"-", "5">>, <<"b", "l", "a">>,
      <<"-">>, <<"-", "-">>, <<>>,
      <<"o", "n">>, <<"o", "f", "f">>, s_help,
      <<"\"", "x", "\"">>, <<"e'">>,
      <<"-", "-", "b", "b">>, <<"-", "-", "b", "o", "o">>, <<"-", "z", "b">>,
      <<"-", "s", "s">> }

\* the number of words of a line
MaxWords == 4

(***************************************************************************)
(* The state machine                                                       *)
(***************************************************************************)
VARIABLES
    cli,        \* the Cli built by CliBuilder::build
    pc,         \* "idle", "loop" (inside the for loop of exec_line) or "done"
    line,       \* the part of the input line read so far
    eol,        \* whether `line` is the whole line
    fed,        \* the number of words of the line read so far
    args,       \* the split_line iterator
    state,      \* exec_line's `state`
    ctx,        \* exec_line's `ctx`
    pos,        \* exec_line's `pos`
    result,     \* what exec_line returned: None, or Some(Ok(..)) or Some(Err(..))
    calls,      \* the handler calls made: the handler and the Context it got
    printed,    \* what was printed
    items,      \* split_line on its own: the (token, Span) pairs yielded so far
    coerce_type, \* parse_arg on its own: its arg_type
    coerce_arg, \* parse_arg on its own: its arg
    coerced,    \* parse_arg on its own: None, or Some of what it returned
    builder,    \* a CommandBuilder under construction
    cli_builder, \* a CliBuilder under construction
    groups,     \* the groups a line was assembled from, in order
    served      \* the number of exec_line calls on `cli` that have returned

vars == <<cli, pc, line, eol, fed, args, state, ctx, pos, result, calls, printed,
          items, coerce_type, coerce_arg, coerced, builder, cli_builder, groups,
          served>>

\* the variables exec_line on a built Cli does not touch
aux == <<items, coerce_type, coerce_arg, coerced, builder, cli_builder, groups, served>>

\* their values where they play no part
AuxIdle ==
    /\ items = <<>>
    /\ coerce_type = "Bool"
    /\ coerce_arg = <<>>
    /\ coerced = None
    /\ builder = WithName(s_cmd)
    /\ cli_builder = CliBuilderNew
    /\ served = 0
    /\ groups = <<>>

Locals == [ctx |-> ctx, state |-> state, pos |-> pos, ret |-> None]

Init ==
    /\ cli \in Clis
    /\ pc = "idle"
    /\ line = <<>>
    /\ eol = FALSE
    /\ fed = 0
    /\ args = IterStart
    /\ state = ReadFirstState
    /\ ctx = [units |-> <<>>]
    /\ pos = 0
    /\ result = None
    /\ calls = <<>>
    /\ printed = <<>>
    /\ AuxIdle

\* ExecLine going on with the locals the call before left behind
ExecLineKeepsLocals ==
    /\ pc = "idle"
    /\ pc' = "loop"
    /\ ctx' = IF ctx.units = <<>> THEN EntryLocals(cli).ctx ELSE ctx
    /\ state' = IF ctx.units = <<>> THEN EntryLocals(cli).state ELSE state
    /\ pos' = IF ctx.units = <<>> THEN EntryLocals(cli).pos ELSE pos
    /\ args' = IterStart
    /\ UNCHANGED <<cli, line, eol, fed, result, calls, printed>>
    /\ UNCHANGED aux

\* exec_line up to the for loop
ExecLine ==
    /\ pc = "idle"
    /\ pc' = "loop"
    /\ ctx' = EntryLocals(cli).ctx
    /\ state' = EntryLocals(cli).state
    /\ pos' = EntryLocals(cli).pos
    /\ args' = IterStart
    /\ UNCHANGED <<cli, line, eol, fed, result, calls, printed>>
    /\ UNCHANGED aux

\* the line once the word w is read: w is followed by whitespace unless the
\* line ends with it
Extended(w, last) == line \o w \o (IF last THEN <<>> ELSE <<" ">>)

\* line.len() as the closure sees it: when more text follows, any larger value
LineLen(w, last) == ByteLen(Extended(w, last)) + (IF last THEN 0 ELSE 1)

\* one pull of the iterator over the line extended by w
Pull(w, last) == IterNext(Extended(w, last), LineLen(w, last), args)

\* the input side of one loop iteration, the pull having returned p
Read(w, last, p) ==
    /\ line' = Extended(w, last)
    /\ eol' = last
    /\ fed' = fed + 1
    /\ args' = p.it
    /\ UNCHANGED aux

\* the effect of one arm on the variables of exec_line
Commit(L) ==
    /\ ctx' = L.ctx
    /\ state' = L.state
    /\ pos' = L.pos
    /\ IF IsSome(L.ret)
       THEN /\ pc' = "done"
            /\ result' = Some(Err(Unwrap(L.ret)))
            /\ printed' = printed \o MakeErrorOutput(cli, Unwrap(L.ret))
       ELSE UNCHANGED <<pc, result, printed>>
    /\ UNCHANGED <<cli, calls>>

CanRead == pc = "loop" /\ ~eol /\ fed < MaxWords

\* a loop iteration in state ReadFirst
ReadFirst ==
    /\ CanRead
    /\ state.tag = "ReadFirst"
    /\ \E w \in Words, last \in BOOLEAN :
         LET p == Pull(w, last)
         IN  /\ IsSome(p.item)
             /\ Read(w, last, p)
             /\ Commit(ReadFirstArm(cli, Locals, Unwrap(p.item).arg))

\* a loop iteration in state ReadNext
ReadNext ==
    /\ CanRead
    /\ state.tag = "ReadNext"
    /\ \E w \in Words, last \in BOOLEAN :
         LET p == Pull(w, last)
         IN  /\ IsSome(p.item)
             /\ Read(w, last, p)
             /\ Commit(ReadNextArm(Locals, Unwrap(p.item).arg))

\* a loop iteration in state ParametersReaded
ParametersReaded ==
    /\ CanRead
    /\ state.tag = "ParametersReaded"
    /\ \E w \in Words, last \in BOOLEAN :
         LET p == Pull(w, last)
         IN  /\ IsSome(p.item)
             /\ Read(w, last, p)
             /\ Commit(ParametersReadedArm(Locals, Unwrap(p.item).arg))

\* the iterator reads on without yielding a token
Skip ==
    /\ CanRead
    /\ \E w \in Words, last \in BOOLEAN :
         LET p == Pull(w, last)
         IN  /\ IsNone(p.item)
             /\ Read(w, last, p)
    /\ UNCHANGED <<cli, pc, state, ctx, pos, result, calls, printed>>

\* the iterator is exhausted: exec_line after the loop
EndOfInput ==
    /\ pc = "loop"
    /\ pc' = "done"
    /\ eol' = TRUE
    /\ LET after == AfterLoop(Locals)
       IN  /\ result' = Some(after.result)
           /\ IF IsSome(after.call)
              THEN /\ calls' = Append(calls, [handler |-> Unwrap(after.call), ctx |-> ctx])
                   /\ printed' = printed \o HandlerOutput(Unwrap(after.call), ctx)
              ELSE /\ calls' = calls
                   /\ printed' = printed \o (IF after.result.ok THEN <<>>
                                             ELSE MakeErrorOutput(cli, after.result.error))
    /\ UNCHANGED <<cli, line, fed, args, state, ctx, pos>>
    /\ UNCHANGED aux

Next == ExecLine \/ ReadFirst \/ ReadNext \/ ParametersReaded \/ Skip \/ EndOfInput

Spec == Init /\ [][Next]_vars

(***************************************************************************)
(* Several calls of exec_line on one Cli: a call that has returned is      *)
(* followed by another one.  `line`, `result`, `calls` and `printed` are   *)
(* those of the call in progress; what the locals of the finished call     *)
(* held is left where it was.                                              *)
(***************************************************************************)
\* the number of exec_line calls made on one Cli
MaxCalls == 2

\* exec_line has returned and the caller goes on to call it again
Return ==
    /\ pc = "done"
    /\ served + 1 < MaxCalls
    /\ pc' = "idle"
    /\ served' = served + 1
    /\ line' = <<>>
    /\ eol' = FALSE
    /\ fed' = 0
    /\ result' = None
    /\ calls' = <<>>
    /\ printed' = <<>>
    /\ UNCHANGED <<cli, args, state, ctx, pos,
                   items, coerce_type, coerce_arg, coerced, builder, cli_builder, groups>>

SessionNext == Next \/ Return

SessionSpec == Init /\ [][SessionNext]_vars

(***************************************************************************)
(* exec_line on lines assembled from groups: a flag with its value, or the *)
(* positional value, in any order (tests.rs,                              *)
(* command_with_mixed_params_and_value)                                    *)
(***************************************************************************)
\* command_with_mixed_params_and_value (tests.rs)
MixedValueBuilder ==
    CommandOf(CliBuilderNew,
        Handler(MixedParams(UseValue(WithName(s_cmd), "Bool")), "cmd_handler"))

\* the groups: a parameter spelled by its name or by its one-character
\* alias, and the positional value
Groups ==
    ([id : {s_bool, s_int, s_float, s_string}, form : {"long", "short"}])
        \cup {[id |-> <<"v", "a", "l", "u", "e">>, form |-> "plain"]}

\* the value of each group in the lines of the test
GroupText(id) ==
    CASE id = s_int -> <<"4", "2">>
      [] id = s_float -> <<"4", ".", "2">>
      [] id = s_string -> <<"b", "l", "a">>
      [] OTHER -> <<"o", "f", "f">>

\* the text of a group
GroupWords(g) ==
    IF g.form = "plain" THEN GroupText(g.id)
    ELSE (IF g.form = "long" THEN <<"-", "-">> \o g.id ELSE <<"-", g.id[1]>>)
         \o (IF g.id = s_bool THEN <<>> ELSE <<" ">> \o GroupText(g.id))

PermInit ==
    /\ cli = BuildCli(MixedValueBuilder)
    /\ pc = "assemble"
    /\ line = s_cmd
    /\ groups = <<>>
    /\ eol = FALSE
    /\ fed = 0
    /\ args = IterStart
    /\ state = ReadFirstState
    /\ ctx = [units |-> <<>>]
    /\ pos = 0
    /\ result = None
    /\ calls = <<>>
    /\ printed = <<>>
    /\ items = <<>>
    /\ coerce_type = "Bool"
    /\ coerce_arg = <<>>
    /\ coerced = None
    /\ builder = WithName(s_cmd)
    /\ cli_builder = CliBuilderNew
    /\ served = 0

\* one more group is written at the end of the line
AddGroup ==
    /\ pc = "assemble"
    /\ \E g \in Groups :
         /\ \A k \in 1..Len(groups) : groups[k].id # g.id
         /\ groups' = Append(groups, g)
         /\ line' = line \o <<" ">> \o GroupWords(g)
    /\ UNCHANGED <<cli, pc, eol, fed, args, state, ctx, pos, result, calls, printed,
                   items, coerce_type, coerce_arg, coerced, builder, cli_builder, served>>

\* exec_line on the line assembled
RunLine ==
    /\ pc = "assemble"
    /\ pc' = "done"
    /\ eol' = TRUE
    /\ \E split \in {SplitLine(line)} :
       \E run \in {ExecTokens(cli, [k \in DOMAIN split |-> split[k].arg])} :
           /\ ctx' = run.ctx
           /\ result' = Some(run.result)
           /\ IF IsSome(run.call)
              THEN /\ calls' = Append(calls, [handler |-> Unwrap(run.call), ctx |-> run.ctx])
                   /\ printed' = printed \o HandlerOutput(Unwrap(run.call), run.ctx)
              ELSE /\ calls' = calls
                   /\ printed' = printed \o MakeErrorOutput(cli, run.result.error)
    /\ UNCHANGED <<cli, line, fed, args, state, pos,
                   items, coerce_type, coerce_arg, coerced, builder, cli_builder, groups, served>>

PermNext == AddGroup \/ RunLine

PermSpec == PermInit /\ [][PermNext]_vars

(***************************************************************************)
(* split_line on its own: the iterator is pulled until it is exhausted, on *)
(* every line of up to MaxLineLen characters and on the lines of the tests *)
(* of cli.rs                                                               *)
(***************************************************************************)
MaxLineLen == 5

\* a word character, whitespace, the two quotes and a two-byte character
LineChars == {"a", " ", "\"", "'", "e'"}

RECURSIVE TextsUpTo(_, _)
\* the texts of at most n characters of cs
TextsUpTo(cs, n) ==
    IF n = 0 THEN {<<>>}
    ELSE TextsUpTo(cs, n - 1) \cup {Append(t, c) : t \in TextsUpTo(cs, n - 1), c \in cs}

\* the lines of test::split_line, split_line_with_quotes and
\* split_line_with_bad_quotes
TestLines ==
    { <<"o", "n", "e", " ", "t", "w", "o", " ", "t", "h", "r", "e", "e">>,
      <<"o", "n", "e", " ", "\"", "t", "w", "o", ";", " ", "t", "w", "o", " ", "a", "n", "d", " ", "h", "a", "l", "f", "\"", " ", "t", "h", "r", "e", "e">>,
      <<"o", "n", "e", " ", "t", "w", "o", " ", "\"", "t", "h", "r", "e", "e", "\"">>,
      <<"o", "n", "e", " ", "t", "w", "o", " ", "\"", "t", "h", "r", "e", "e">> }

Lines == TextsUpTo(LineChars, MaxLineLen) \cup TestLines

SplitInit ==
    /\ line \in Lines
    /\ pc = "split"
    /\ args = IterStart
    /\ items = <<>>
    /\ eol = TRUE
    /\ cli = BuildCli(CliBuilderNew)
    /\ fed = 0
    /\ state = ReadFirstState
    /\ ctx = [units |-> <<>>]
    /\ pos = 0
    /\ result = None
    /\ calls = <<>>
    /\ printed = <<>>
    /\ coerce_type = "Bool"
    /\ coerce_arg = <<>>
    /\ coerced = None
    /\ builder = WithName(s_cmd)
    /\ cli_builder = CliBuilderNew
    /\ served = 0
    /\ groups = <<>>

\* Iterator::next returns Some((token, span))
SplitYield ==
    /\ pc = "split"
    /\ \E n \in {IterNext(line, ByteLen(line), args)} :
         /\ IsSome(n.item)
         /\ items' = Append(items, Unwrap(n.item))
         /\ args' = n.it
    /\ UNCHANGED <<cli, pc, line, eol, fed, state, ctx, pos, result, calls, printed,
                   coerce_type, coerce_arg, coerced, builder, cli_builder, groups, served>>

\* Iterator::next returns None
SplitEnd ==
    /\ pc = "split"
    /\ \E n \in {IterNext(line, ByteLen(line), args)} :
         /\ IsNone(n.item)
         /\ args' = n.it
    /\ pc' = "done"
    /\ UNCHANGED <<cli, line, eol, fed, state, ctx, pos, result, calls, printed,
                   items, coerce_type, coerce_arg, coerced, builder, cli_builder, groups, served>>

SplitNext == SplitYield \/ SplitEnd

SplitSpec == SplitInit /\ [][SplitNext]_vars

(***************************************************************************)
(* parse_arg on its own, on every argument type and on the texts of        *)
(* CoerceTexts                                                             *)
(***************************************************************************)
MaxTextLen == 3

\* the characters of the texts tried exhaustively
CoerceChars == {"o", "n", "f", "N", "0", "1", "9", "-", "+", "."}

\* the texts of test::parse_arg_bool and parse_arg_bool_error and their
\* neighbours
BoolTexts ==
    { <<"t", "r", "u", "e">>,
      <<"y", "e", "s">>,
      <<"1">>,
      <<"o", "n">>,
      <<"f", "a", "l", "s", "e">>,
      <<"n", "o">>,
      <<"0">>,
      <<"o", "f", "f">>,
      <<"T", "r", "u", "e">>,
      <<"T", "R", "U", "E">>,
      <<"Y", "e", "s">>,
      <<"O", "N">>,
      <<"O", "f", "f">>,
      <<"N", "O">>,
      <<"n", "o", "t", "_", "a", "_", "b", "o", "o", "l">>,
      <<"t", "r", "u">>,
      <<"t", "r", "u", "e", "e">>,
      <<" ", "o", "n">>,
      <<"o", "n", " ">>,
      <<"y">>,
      <<"n">>,
      <<"t">>,
      <<"f">>,
      <<"-", "x">>,
      <<"-", "-", "b", "o", "o", "l">>,
      <<"-", "5">>,
      <<"2">> }

\* the bounds of i64 of test::parse_arg_int, their neighbours, and texts
\* that are no decimal numbers
IntTexts ==
    { <<"9", "2", "2", "3", "3", "7", "2", "0", "3", "6", "8", "5", "4", "7", "7", "5", "8", "0", "7">>,
      <<"-", "9", "2", "2", "3", "3", "7", "2", "0", "3", "6", "8", "5", "4", "7", "7", "5", "8", "0", "8">>,
      <<"9", "2", "2", "3", "3", "7", "2", "0", "3", "6", "8", "5", "4", "7", "7", "5", "8", "0", "8">>,
      <<"-", "9", "2", "2", "3", "3", "7", "2", "0", "3", "6", "8", "5", "4", "7", "7", "5", "8", "0", "9">>,
      <<"+", "9", "2", "2", "3", "3", "7", "2", "0", "3", "6", "8", "5", "4", "7", "7", "5", "8", "0", "7">>,
      <<"9", "2", "2", "3", "3", "7", "2", "0", "3", "6", "8", "5", "4", "7", "7", "5", "8", "0", "7", "0">>,
      <<"-", "9", "2", "2", "3", "3", "7", "2", "0", "3", "6", "8", "5", "4", "7", "7", "5", "8", "0", "8", "0">>,
      <<"1", "8", "4", "4", "6", "7", "4", "4", "0", "7", "3", "7", "0", "9", "5", "5", "1", "6", "1", "6">>,
      <<"4", "2">>,
      <<"-", "4", "2">>,
      <<"n", "o", "t", "_", "i", "n", "t">>,
      <<"4", ".", "2">>,
      <<"1", "e", "3">>,
      <<"0", "x", "1", "0">>,
      <<"1", "2", "a">>,
      <<>>,
      <<"-">>,
      <<"+">>,
      <<"-", "-", "5">>,
      <<"-", " ", "5">>,
      <<"0", "0", "7">>,
      <<"-", "0">>,
      <<"4", "_", "2">> }

CoerceTexts == TextsUpTo(CoerceChars, MaxTextLen) \cup BoolTexts \cup IntTexts

CoerceInit ==
    /\ coerce_type \in ArgTypes
    /\ coerce_arg \in CoerceTexts
    /\ coerced = None
    /\ pc = "coerce"
    /\ cli = BuildCli(CliBuilderNew)
    /\ line = <<>>
    /\ eol = FALSE
    /\ fed = 0
    /\ args = IterStart
    /\ state = ReadFirstState
    /\ ctx = [units |-> <<>>]
    /\ pos = 0
    /\ result = None
    /\ calls = <<>>
    /\ printed = <<>>
    /\ items = <<>>
    /\ builder = WithName(s_cmd)
    /\ cli_builder = CliBuilderNew
    /\ served = 0
    /\ groups = <<>>

\* parse_arg(coerce_type, coerce_arg)
Coerce ==
    /\ pc = "coerce"
    /\ pc' = "done"
    /\ coerced' = Some(ParseArg(coerce_type, coerce_arg))
    /\ UNCHANGED <<cli, line, eol, fed, args, state, ctx, pos, result, calls, printed,
                   items, coerce_type, coerce_arg, builder, cli_builder, groups, served>>

CoerceNext == Coerce

CoerceSpec == CoerceInit /\ [][CoerceNext]_vars

(***************************************************************************)
(* CommandBuilder::parameter called repeatedly on one CommandBuilder       *)
(***************************************************************************)
\* the number of `parameter` calls
MaxParams == 2

\* the names and aliases parameters are given
ParamKeys == {<<"a">>, <<"b">>, <<"b", "b">>}

\* the ParameterBuilders handed over: a name, at most two aliases, a type
ParamBuilders ==
    { [name |-> n, aliases |-> al, description |-> None, value_type |-> t] :
        n \in ParamKeys,
        al \in {<<>>} \cup {<<x>> : x \in ParamKeys}
                 \cup {al2 \in ParamKeys \X ParamKeys : al2[1] # al2[2]},
        t \in {"Bool", "Int"} }

BuildInit ==
    /\ builder = WithName(s_cmd)
    /\ cli_builder = CliBuilderNew
    /\ served = 0
    /\ pc = "build"
    /\ cli = BuildCli(CliBuilderNew)
    /\ line = <<>>
    /\ eol = FALSE
    /\ fed = 0
    /\ args = IterStart
    /\ state = ReadFirstState
    /\ ctx = [units |-> <<>>]
    /\ pos = 0
    /\ result = None
    /\ calls = <<>>
    /\ printed = <<>>
    /\ items = <<>>
    /\ coerce_type = "Bool"
    /\ coerce_arg = <<>>
    /\ coerced = None
    /\ groups = <<>>

\* builder.parameter(pb); after a panic there is no builder to call
ParameterCall ==
    /\ pc = "build"
    /\ ~builder.panic
    /\ Len(builder.registered) < MaxParams
    /\ \E pb \in ParamBuilders : builder' = ParameterOf(builder, pb)
    /\ UNCHANGED <<cli, pc, line, eol, fed, args, state, ctx, pos, result, calls, printed,
                   items, coerce_type, coerce_arg, coerced, cli_builder, groups, served>>

BuildNext == ParameterCall

BuildSpec == BuildInit /\ [][BuildNext]_vars

(***************************************************************************)
(* Building a tree: CommandBuilders are created and configured, handed to  *)
(* the CliBuilder, and CliBuilder::build is called.  Every CommandBuilder  *)
(* created is told apart by its description and its handler.               *)
(***************************************************************************)
\* the number of CommandBuilders created
MaxCommands == 2

\* the names and aliases commands are given
CommandKeys == {s_cmd, <<"x">>}

\* the description given to the k-th CommandBuilder created
Ident(k) == CASE k = 1 -> "c1" [] k = 2 -> "c2" [] k = 3 -> "c3" [] OTHER -> "c4"

\* the handler given to the k-th CommandBuilder created
HandlerName(k) == CASE k = 1 -> "h1" [] k = 2 -> "h2" [] k = 3 -> "h3" [] OTHER -> "h4"

RECURSIVE CountSubcommands(_)
\* the number of subcommand builders held by a sequence of CommandBuilders
CountSubcommands(cbs) ==
    IF cbs = <<>> THEN 0 ELSE Len(Head(cbs).subcommands) + CountSubcommands(Tail(cbs))

\* the number of CommandBuilders created so far
Created ==
    Len(cli_builder.commands) + CountSubcommands(cli_builder.commands)
        + (IF pc = "command" THEN 1 + Len(builder.subcommands) ELSE 0)

\* the CommandBuilders passed to CommandBuilder::subcommand as the k-th
\* builder created: a name, an alias or none, a handler or none, a value
\* type or none
SubBuilders(k) ==
    { [Description(WithName(n), Ident(k)) EXCEPT !.aliases = al, !.handler = h, !.value = v] :
        n \in CommandKeys,
        al \in {<<>>} \cup {<<a>> : a \in CommandKeys},
        h \in {None, Some(HandlerName(k))},
        v \in {None, Some("Int")} }

TreeInit ==
    /\ cli_builder = CliBuilderNew
    /\ served = 0
    /\ builder = WithName(s_cmd)
    /\ pc = "cli"
    /\ cli = BuildCli(CliBuilderNew)
    /\ line = <<>>
    /\ eol = FALSE
    /\ fed = 0
    /\ args = IterStart
    /\ state = ReadFirstState
    /\ ctx = [units |-> <<>>]
    /\ pos = 0
    /\ result = None
    /\ calls = <<>>
    /\ printed = <<>>
    /\ items = <<>>
    /\ coerce_type = "Bool"
    /\ coerce_arg = <<>>
    /\ coerced = None
    /\ groups = <<>>

\* the variables building a tree does not touch
TreeRest == <<line, eol, fed, args, state, ctx, pos, result, calls, printed,
              items, coerce_type, coerce_arg, coerced, groups, served>>

\* CommandBuilder::with_name(n).description(..)
WithNameCall ==
    /\ pc = "cli"
    /\ Created < MaxCommands
    /\ \E n \in CommandKeys : builder' = Description(WithName(n), Ident(Created + 1))
    /\ pc' = "command"
    /\ UNCHANGED <<cli, cli_builder>>
    /\ UNCHANGED TreeRest

\* builder.alias(a)
AliasCall ==
    /\ pc = "command"
    /\ builder.aliases = <<>>
    /\ \E a \in CommandKeys : builder' = Alias(builder, a)
    /\ UNCHANGED <<cli, cli_builder, pc>>
    /\ UNCHANGED TreeRest

\* builder.handler(f)
HandlerCall ==
    /\ pc = "command"
    /\ IsNone(builder.handler)
    /\ builder' = Handler(builder, HandlerName(Created - Len(builder.subcommands)))
    /\ UNCHANGED <<cli, cli_builder, pc>>
    /\ UNCHANGED TreeRest

\* builder.use_value(Int)
UseValueCall ==
    /\ pc = "command"
    /\ IsNone(builder.value)
    /\ builder' = UseValue(builder, "Int")
    /\ UNCHANGED <<cli, cli_builder, pc>>
    /\ UNCHANGED TreeRest

\* builder.subcommand(sb)
SubcommandCall ==
    /\ pc = "command"
    /\ Created < MaxCommands
    /\ \E sb \in SubBuilders(Created + 1) : builder' = Subcommand(builder, sb)
    /\ UNCHANGED <<cli, cli_builder, pc>>
    /\ UNCHANGED TreeRest

\* cli_builder.command(builder)
CommandCall ==
    /\ pc = "command"
    /\ cli_builder' = CommandOf(cli_builder, builder)
    /\ builder' = WithName(s_cmd)
    /\ pc' = "cli"
    /\ UNCHANGED cli
    /\ UNCHANGED TreeRest

\* cli_builder.print_help(true)
PrintHelpCall ==
    /\ pc = "cli"
    /\ ~cli_builder.need_print_help
    /\ cli_builder' = PrintHelp(cli_builder, TRUE)
    /\ UNCHANGED <<cli, builder, pc>>
    /\ UNCHANGED TreeRest

\* cli_builder.build()
BuildCall ==
    /\ pc = "cli"
    /\ cli' = BuildCli(cli_builder)
    /\ pc' = "built"
    /\ UNCHANGED <<builder, cli_builder>>
    /\ UNCHANGED TreeRest

TreeNext ==
    \/ WithNameCall \/ AliasCall \/ HandlerCall \/ UseValueCall
    \/ SubcommandCall \/ CommandCall \/ PrintHelpCall \/ BuildCall

TreeSpec == TreeInit /\ [][TreeNext]_vars

(***************************************************************************)
(* Properties                                                              *)
(***************************************************************************)
RECURSIVE ArgsOf(_)
\* the tokens of a sequence of (token, Span) pairs
ArgsOf(pairs) == IF pairs = <<>> THEN <<>> ELSE <<Head(pairs).arg>> \o ArgsOf(Tail(pairs))

\* the tokens of a line
TokensOf(ln) == ArgsOf(SplitLine(ln))

Done == pc = "done"

IsOk == IsSome(result) /\ Unwrap(result).ok

IsErr(error) == IsSome(result) /\ ~Unwrap(result).ok /\ Unwrap(result).error = error

RootUnit == ContextUnit(cli.root.name, cli.root.command)

\* the characters of a `-xyz` token, or None for any other token
ClusterChars(t) ==
    IF Len(t) >= 2 /\ t[1] = "-" /\ t[2] # "-" THEN Some(Tail(t)) ELSE None

\* the parameter the character at position k of a cluster resolves to
CharParam(cmd, chars, k) == cmd.parameters[<<chars[k]>>]

\* the positions of a cluster whose parameter takes a value
ValuePositions(cmd, chars) == {k \in 1..Len(chars) : CharParam(cmd, chars, k).value_type # "Bool"}

\* the rank of position k among the value positions
Rank(cmd, chars, k) == Cardinality({j \in ValuePositions(cmd, chars) : j <= k})

\* the parameter map the cluster `chars` followed by the tokens `vals`
\* is to produce: a Bool character binds true, the k-th other character
\* binds the coerced k-th token (the last occurrence of a parameter wins)
ClusterBinding(cmd, chars, vals) ==
    [n \in {CharParam(cmd, chars, k).name : k \in 1..Len(chars)} |->
        LET ks == {k \in 1..Len(chars) : CharParam(cmd, chars, k).name = n}
            kmax == CHOOSE k \in ks : \A j \in ks : j <= k
            p == CharParam(cmd, chars, kmax)
        IN  [param |-> p,
             value |-> IF p.value_type = "Bool" THEN ArgBool(TRUE)
                       ELSE ParseArg(p.value_type, vals[Rank(cmd, chars, kmax)]).value]]

\* the line is `c -xyz v1 .. vk`: c a top-level command with a handler,
\* every character of xyz a parameter key of c, k the number of non-Bool
\* characters, each v coercible to the type of its character
ClusterLine(t) ==
    /\ Len(t) >= 2
    /\ t[1] \in DOMAIN Commands(cli)
    /\ IsSome(Commands(cli)[t[1]].exec)
    /\ IsSome(ClusterChars(t[2]))
    /\ LET cmd == Commands(cli)[t[1]]
           chars == Unwrap(ClusterChars(t[2]))
       IN  /\ \A k \in 1..Len(chars) : <<chars[k]>> \in DOMAIN cmd.parameters
           /\ Len(t) = 2 + Cardinality(ValuePositions(cmd, chars))
           /\ \A k \in ValuePositions(cmd, chars) :
                ParseArg(CharParam(cmd, chars, k).value_type, t[2 + Rank(cmd, chars, k)]).ok

\* C1: short-cluster expansion.  On a line `c -xyz v1 .. vk` as described
\* at ClusterLine, exec_line returns the result of c's handler, which is
\* called once with the units root and c, c's unit binding true to every
\* Bool character's parameter and the coerced j-th following token to the
\* j-th non-Bool character's parameter; and right after the cluster token
\* the Bool parameters are bound already and the queue holds the non-Bool
\* parameters in character order.
C1_ShortClusterExpansion ==
    LET t == TokensOf(line)
    IN  /\ (Done /\ ClusterLine(t)) =>
              LET cmd == Commands(cli)[t[1]]
                  chars == Unwrap(ClusterChars(t[2]))
                  unit == [command |-> [name |-> t[1], node |-> cmd],
                           parameters |-> ClusterBinding(cmd, chars, SubSeq(t, 3, Len(t))),
                           value |-> None]
              IN  /\ IsOk
                  /\ Unwrap(result).value = HandlerResult(Unwrap(cmd.exec))
                  /\ calls = <<[handler |-> Unwrap(cmd.exec),
                                ctx |-> [units |-> <<RootUnit, unit>>]]>>
        /\ (pc = "loop" /\ Len(t) = 2 /\ t[1] \in DOMAIN Commands(cli)
              /\ IsSome(ClusterChars(t[2]))
              /\ \A k \in 1..Len(Unwrap(ClusterChars(t[2]))) :
                    <<Unwrap(ClusterChars(t[2]))[k]>> \in DOMAIN Commands(cli)[t[1]].parameters) =>
              LET cmd == Commands(cli)[t[1]]
                  chars == Unwrap(ClusterChars(t[2]))
                  vp == ValuePositions(cmd, chars)
              IN  /\ \A k \in (1..Len(chars)) \ vp :
                        /\ CharParam(cmd, chars, k).name \in DOMAIN ctx.units[2].parameters
                        /\ ctx.units[2].parameters[CharParam(cmd, chars, k).name].value = ArgBool(TRUE)
                  /\ Len(state.params) = Cardinality(vp)
                  /\ \A k \in vp : state.params[Rank(cmd, chars, k)] = CharParam(cmd, chars, k)

\* a run of `cmd -bis 42 bla` on the tree of command_with_mixed_params
C1_Witness ==
    /\ Done
    /\ cli = BuildCli(MixedBuilder)
    /\ TokensOf(line) = <<s_cmd, <<"-", "b", "i", "s">>, <<"4", "2">>, <<"b", "l", "a">>>>
    /\ IsOk
    /\ Len(calls) = 1
    /\ calls[1].ctx.units[2].parameters[s_int].value = ArgInt(FALSE, <<"4", "2">>)
    /\ calls[1].ctx.units[2].parameters[s_string].value = ArgString(<<"b", "l", "a">>)
    /\ calls[1].ctx.units[2].parameters[s_bool].value = ArgBool(TRUE)

Range(f) == {f[k] : k \in DOMAIN f}

\* the commands of a CliBuilder down to the second level, each with the
\* command tokens that lead to it
CommandPaths(b) ==
    {[path |-> <<cb.name>>, cb |-> cb] : cb \in Range(b.commands)}
    \cup UNION {{[path |-> <<cb.name, sb.name>>, cb |-> sb] : sb \in Range(cb.subcommands)} :
                cb \in Range(b.commands)}

\* how a parameter key is spelled on the line
FlagToken(key) == IF Len(key) = 1 THEN <<"-">> \o key ELSE <<"-", "-">> \o key

\* what a caller and the handlers observe of one exec_line call
Outcome(res, handlerCalls) == [result |-> res, calls |-> handlerCalls]

OutcomeOfTokens(tokens) ==
    LET r == ExecTokens(cli, tokens)
    IN  Outcome(r.result, IF IsSome(r.call) THEN <<[handler |-> Unwrap(r.call), ctx |-> r.ctx]>>
                          ELSE <<>>)

\* the finished call on `path flag rest`, the flag spelling the alias
\* `alias` of the parameter `name`, has the outcome of `path canonical rest`
AliasAgrees(t, path, name, alias) ==
    (/\ Len(t) > Len(path)
     /\ SubSeq(t, 1, Len(path)) = path
     /\ t[Len(path) + 1] = FlagToken(alias)) =>
        Outcome(Unwrap(result), calls)
          = OutcomeOfTokens(path \o <<FlagToken(name)>> \o SubSeq(t, Len(path) + 2, Len(t)))

\* C2: alias equivalence for parameters.  For every command, every
\* parameter registered on it and every alias registered for that
\* parameter, a line naming the parameter by the alias has the same result
\* and hands the handler the same Context as the line naming it by its
\* canonical name.
C2_AliasEquivalence ==
    Done =>
        \A b \in Builders : BuildCli(b) = cli =>
            \A cp \in CommandPaths(b) : \A pb \in Range(cp.cb.registered) :
                \A alias \in Range(pb.aliases) :
                    AliasAgrees(TokensOf(line), cp.path, pb.name, alias)

\* the step in which exec_line leaves the for loop with the input used up
EndStep == pc = "loop" /\ pc' = "done" /\ fed' = fed

\* C3: missing value detection.  Whenever the input ends while a non-Bool
\* parameter named by `--name` or in a `-xyz` cluster still waits for its
\* value, exec_line returns ParameterValueMissed and calls no handler.
C3_MissingValue ==
    [][(EndStep /\ state.tag = "ParametersReaded"
          /\ \E k \in 1..Len(state.params) : state.params[k].value_type # "Bool")
        => (result' = Some(Err("ParameterValueMissed")) /\ calls' = calls)]_vars

\* C4: exec_line never returns ParserError, whatever the tree and the line.
C4_NoParserError == ~IsErr("ParserError")

\* a token that does not start with a dash
IsPlainToken(t) == ~StartsWith(t, <<"-">>)

\* no token of the line was used as a value: no unit has a positional
\* value and every bound parameter is a Bool flag
FlagsOnly(units) ==
    \A i \in DOMAIN units :
        /\ IsNone(units[i].value)
        /\ \A n \in DOMAIN units[i].parameters : units[i].parameters[n].value.t = "Bool"

UnitNames(units) == [i \in DOMAIN units |-> units[i].command.name]

\* the units form a path of the command tree that starts at its root
IsTreePath(units) ==
    /\ Len(units) >= 1
    /\ units[1].command = RootUnit.command
    /\ \A i \in 2..Len(units) :
          /\ units[i].command.name \in DOMAIN units[i - 1].command.node.subcommands
          /\ units[i].command.node = units[i - 1].command.node.subcommands[units[i].command.name]

\* C5 as stated: the Context handed to a handler holds exactly one unit per
\* matched command token, the first being the top-level command (here for
\* lines none of whose tokens is a value, where the command tokens are the
\* tokens without a leading dash).
C5_OneUnitPerCommandToken ==
    \A k \in DOMAIN calls :
        FlagsOnly(calls[k].ctx.units) =>
            UnitNames(calls[k].ctx.units) = SelectSeq(TokensOf(line), IsPlainToken)

\* C5, amended: the Context handed to a handler holds the implicit root
\* unit (empty, named root) first and after it exactly one unit per matched
\* command token, from the top-level command to the command invoked, each
\* unit's command being the child of the unit before it under the typed
\* name; `cmd sub` yields three units.
C5_RootThenOneUnitPerCommandToken ==
    \A k \in DOMAIN calls :
        /\ calls[k].ctx.units[1] = RootUnit
        /\ IsTreePath(calls[k].ctx.units)
        /\ FlagsOnly(calls[k].ctx.units) =>
              UnitNames(Tail(calls[k].ctx.units)) = SelectSeq(TokensOf(line), IsPlainToken)

\* `cmd --bool sub`: root, cmd holding bool = true, and sub
C5_Witness ==
    /\ Done
    /\ cli = BuildCli(MixedBuilder)
    /\ TokensOf(line) = <<s_cmd, <<"-", "-">> \o s_bool, s_sub>>
    /\ Len(calls) = 1
    /\ calls[1].handler = "sub_handler"
    /\ UnitNames(calls[1].ctx.units) = <<cli.root.name, s_cmd, s_sub>>
    /\ calls[1].ctx.units[2].parameters[s_bool].value = ArgBool(TRUE)

\* the parameter key a single-flag token names: `--key`, or `-k` for one
\* character; None for any other token
FlagKey(t) ==
    IF StartsWith(t, <<"-", "-">>) THEN Some(SubSeq(t, 3, Len(t)))
    ELSE IF Len(t) = 2 /\ t[1] = "-" THEN Some(<<t[2]>>)
    ELSE None

RECURSIVE GroupsOk(_, _)
\* tokens is a sequence of flag groups of the command cmd: a Bool flag, or
\* a non-Bool flag followed by a token coercible to its type
GroupsOk(cmd, tokens) ==
    IF tokens = <<>> THEN TRUE
    ELSE /\ IsSome(FlagKey(Head(tokens)))
         /\ Unwrap(FlagKey(Head(tokens))) \in DOMAIN cmd.parameters
         /\ LET p == cmd.parameters[Unwrap(FlagKey(Head(tokens)))]
            IN  IF p.value_type = "Bool" THEN GroupsOk(cmd, Tail(tokens))
                ELSE /\ Len(tokens) >= 2
                     /\ ParseArg(p.value_type, tokens[2]).ok
                     /\ GroupsOk(cmd, SubSeq(tokens, 3, Len(tokens)))

RECURSIVE GroupsBinding(_, _, _)
\* the parameter map a sequence of flag groups is to produce
GroupsBinding(cmd, tokens, map) ==
    IF tokens = <<>> THEN map
    ELSE LET p == cmd.parameters[Unwrap(FlagKey(Head(tokens)))]
         IN  IF p.value_type = "Bool"
             THEN GroupsBinding(cmd, Tail(tokens),
                                MapInsert(map, p.name, [param |-> p, value |-> ArgBool(TRUE)]))
             ELSE GroupsBinding(cmd, SubSeq(tokens, 3, Len(tokens)),
                                MapInsert(map, p.name,
                                          [param |-> p, value |-> ParseArg(p.value_type, tokens[2]).value]))

\* C6: nested subcommand binding.  On a line `cmd A sub B`, A and B being
\* sequences of flag groups of cmd and of its subcommand sub (which has a
\* handler), sub's handler is called once with the units root, cmd and sub:
\* cmd's unit (the one before the last) holds exactly the parameters of A
\* and sub's unit (the last) exactly those of B, also when both commands
\* declare the same names and aliases.
C6_NestedBinding ==
    LET t == TokensOf(line)
    IN  Done => \A j \in 2..Len(t) :
          (/\ t[1] \in DOMAIN Commands(cli)
           /\ IsPlainToken(t[j])
           /\ t[j] \in DOMAIN Commands(cli)[t[1]].subcommands
           /\ IsSome(Commands(cli)[t[1]].subcommands[t[j]].exec)
           /\ GroupsOk(Commands(cli)[t[1]], SubSeq(t, 2, j - 1))
           /\ GroupsOk(Commands(cli)[t[1]].subcommands[t[j]], SubSeq(t, j + 1, Len(t))))
          => LET cmd == Commands(cli)[t[1]]
                 sub == cmd.subcommands[t[j]]
             IN  /\ IsOk
                 /\ calls = <<[handler |-> Unwrap(sub.exec),
                               ctx |-> [units |-> <<
                                   RootUnit,
                                   [command |-> [name |-> t[1], node |-> cmd],
                                    parameters |-> GroupsBinding(cmd, SubSeq(t, 2, j - 1), EmptyMap),
                                    value |-> None],
                                   [command |-> [name |-> t[j], node |-> sub],
                                    parameters |-> GroupsBinding(sub, SubSeq(t, j + 1, Len(t)), EmptyMap),
                                    value |-> None]>>]]>>

\* `cmd sub -i 42`: the value given after `sub` is in the last unit only
C6_Witness ==
    /\ Done
    /\ cli = BuildCli(MixedBuilder)
    /\ TokensOf(line) = <<s_cmd, s_sub, <<"-", "i">>, <<"4", "2">>>>
    /\ Len(calls) = 1
    /\ Len(calls[1].ctx.units) = 3
    /\ DOMAIN calls[1].ctx.units[2].parameters = {}
    /\ calls[1].ctx.units[3].parameters[s_int].value = ArgInt(FALSE, <<"4", "2">>)

\* the deepest unit pushed so far
LastUnit == ctx.units[Len(ctx.units)]

\* C7: a command without a handler cannot be run.  When the input ends
\* with no error and nothing pending, and the deepest matched command has
\* no handler, exec_line returns CantExecuteCommand and calls no handler.
C7_NoHandler ==
    [][(EndStep /\ state.tag # "ParametersReaded" /\ IsNone(LastUnit.command.node.exec))
        => (result' = Some(Err("CantExecuteCommand")) /\ calls = <<>> /\ calls' = <<>>)]_vars

\* `cmd` where cmd only contains the subcommand sub and has no handler
C7_Witness ==
    /\ Done
    /\ cli = BuildCli(ContainerBuilder)
    /\ TokensOf(line) = <<s_cmd>>
    /\ IsNone(LastUnit.command.node.exec)
    /\ IsErr("CantExecuteCommand")
    /\ calls = <<>>

\* C8: only the final command's handler runs, and only on success.  No
\* handler is called before the call returns and at most one is; a call
\* returns Ok exactly when one handler ran, and then every token of the
\* line was consumed without error, the handler is the one of the deepest
\* matched command, it received the Context built and its return value is
\* the result; when a token produced an error or a value is still awaited
\* at the end of input, no handler ran.
C8_OnlyFinalHandler ==
    /\ Len(calls) <= 1
    /\ ~Done => calls = <<>>
    /\ (Done /\ ~IsOk) => calls = <<>>
    /\ (Done /\ state.tag = "ParametersReaded") => calls = <<>>
    /\ (Done /\ IsSome(ForLoop(cli, EntryLocals(cli), TokensOf(line)).ret)) => calls = <<>>
    /\ (Done /\ IsOk) =>
          /\ IsNone(ForLoop(cli, EntryLocals(cli), TokensOf(line)).ret)
          /\ fed = Len(TokensOf(line)) \/ eol
          /\ Len(calls) = 1
          /\ Some(calls[1].handler) = LastUnit.command.node.exec
          /\ calls[1].ctx = ctx
          /\ Unwrap(result).value = HandlerResult(calls[1].handler)

\* `cmd sub`, both with handlers: only sub's handler runs
C8_Witness ==
    /\ Done
    /\ cli = BuildCli(MixedBuilder)
    /\ TokensOf(line) = <<s_cmd, s_sub>>
    /\ IsSome(ctx.units[2].command.node.exec)
    /\ Len(calls) = 1
    /\ calls[1].handler = "sub_handler"
    /\ Unwrap(result) = Ok(HandlerResult("sub_handler"))

\* C9: the first token must be a command.  A first token that starts with
\* a dash (a bare `-` or `--` included, and also when a top-level command
\* is registered under that very key) ends the call with
\* CantExecuteParameter; any other first token that is not a top-level
\* command key ends it with NotCommand; a top-level command key enters
\* that command.
C9_FirstToken ==
    LET t == TokensOf(line)
    IN  (pc # "start" /\ Len(t) >= 1) =>
            IF StartsWith(t[1], <<"-">>)
            THEN Done /\ IsErr("CantExecuteParameter") /\ calls = <<>> /\ Len(t) = 1
            ELSE IF t[1] \in DOMAIN Commands(cli)
            THEN /\ Len(ctx.units) >= 2
                 /\ ctx.units[2].command = [name |-> t[1], node |-> Commands(cli)[t[1]]]
                 /\ ~IsErr("CantExecuteParameter")
            ELSE Done /\ IsErr("NotCommand") /\ calls = <<>> /\ Len(t) = 1

\* the first token `-x` is the key of a top-level command
C9_Witness ==
    /\ Done
    /\ TokensOf(line) = <<<<"-", "x">>>>
    /\ <<"-", "x">> \in DOMAIN Commands(cli)
    /\ IsErr("CantExecuteParameter")

\* a step of the loop that reads one more token
TokenStep == pc = "loop" /\ fed' = fed + 1 /\ Len(TokensOf(line')) = Len(TokensOf(line)) + 1

\* the token a TokenStep reads
TokenRead == TokensOf(line')[Len(TokensOf(line'))]

\* the parameter a flag token binds or enqueues in the step
FlagTaken(p) ==
    IF p.value_type = "Bool"
    THEN /\ p.name \in DOMAIN ctx'.units[pos + 1].parameters
         /\ ctx'.units[pos + 1].parameters[p.name].value = ArgBool(TRUE)
         /\ state' = ReadNextState
    ELSE /\ state' = ParametersReadedState(<<p>>)
         /\ ctx' = ctx

\* C10: dash-prefixed tokens are parameters.  Inside a command a token
\* that starts with a dash is looked up among the current command's
\* parameters only: it never enters a subcommand and is never bound as the
\* positional value, even when a subcommand is registered under the token
\* itself.  When a subcommand and a parameter share the key x, `--x` and
\* `-x` take the parameter and the bare token x enters the subcommand.
C10_DashIsParameter ==
    [][(state.tag = "ReadNext" /\ TokenStep) =>
        LET cmd == ctx.units[pos + 1].command.node
        IN  /\ StartsWith(TokenRead, <<"-">>) =>
                /\ UnitNames(ctx'.units) = UnitNames(ctx.units)
                /\ pos' = pos
                /\ \A i \in DOMAIN ctx.units : ctx'.units[i].value = ctx.units[i].value
                /\ IsSome(FlagKey(TokenRead)) =>
                      IF Unwrap(FlagKey(TokenRead)) \in DOMAIN cmd.parameters
                      THEN pc' = "loop" /\ FlagTaken(cmd.parameters[Unwrap(FlagKey(TokenRead))])
                      ELSE result' = Some(Err("NotParameter"))
            /\ \A x \in DOMAIN cmd.subcommands \cap DOMAIN cmd.parameters :
                TokenRead = x =>
                    /\ ctx'.units = Append(ctx.units, ContextUnit(x, cmd.subcommands[x]))
                    /\ pos' = pos + 1]_vars

\* `cmd -x` where cmd has a parameter alias x, a subcommand x and the
\* subcommand is also registered under the key -x: the flag is bound
C10_Witness ==
    /\ pc = "loop"
    /\ TokensOf(line) = <<s_cmd, <<"-", "x">>>>
    /\ <<"-", "x">> \in DOMAIN ctx.units[2].command.node.subcommands
    /\ <<"x">> \in DOMAIN ctx.units[2].command.node.subcommands
    /\ Len(ctx.units) = 2
    /\ s_flag \in DOMAIN ctx.units[2].parameters
    /\ ctx.units[2].parameters[s_flag].value = ArgBool(TRUE)

\* C11: subcommand before value.  In ReadNext a token without a leading
\* dash that is a subcommand key of the current command pushes that
\* subcommand's unit (and sets no value, even when the token could be
\* coerced to the command's value type); otherwise, when the command
\* declares a value type, the token is coerced to it and bound as the
\* current unit's value (ValueParseFailed when it cannot be); otherwise the
\* result is NotCommand.
C11_SubcommandBeforeValue ==
    [][(state.tag = "ReadNext" /\ TokenStep /\ IsPlainToken(TokenRead)) =>
        LET cmd == ctx.units[pos + 1].command.node
            t == TokenRead
        IN  IF t \in DOMAIN cmd.subcommands
            THEN /\ ctx'.units = Append(ctx.units, ContextUnit(t, cmd.subcommands[t]))
                 /\ pos' = pos + 1
                 /\ state' = ReadNextState
                 /\ pc' = "loop"
            ELSE IF IsSome(cmd.value)
            THEN IF ParseArg(Unwrap(cmd.value), t).ok
                 THEN /\ ctx' = [ctx EXCEPT !.units[pos + 1].value =
                                                Some(ParseArg(Unwrap(cmd.value), t).value)]
                      /\ pos' = pos
                      /\ state' = ReadNextState
                      /\ pc' = "loop"
                 ELSE result' = Some(Err("ValueParseFailed")) /\ pc' = "done"
            ELSE result' = Some(Err("NotCommand")) /\ pc' = "done"]_vars

\* `cmd on`, cmd taking a Bool value and `on` being a key of its
\* subcommand: the subcommand is entered and cmd's value stays unset
C11_Witness ==
    /\ pc = "loop"
    /\ TokensOf(line) = <<s_cmd, <<"o", "n">>>>
    /\ ctx.units[2].command.node.value = Some("Bool")
    /\ ParseArg("Bool", <<"o", "n">>).ok
    /\ Len(ctx.units) = 3
    /\ ctx.units[3].command.name = <<"o", "n">>
    /\ IsNone(ctx.units[2].value)

\* the value a group is to bind
GroupValue(id) ==
    CASE id = s_bool -> ArgBool(TRUE)
      [] id = s_int -> ArgInt(FALSE, <<"4", "2">>)
      [] id = s_float -> ArgFloat([kind |-> "finite", neg |-> FALSE, digits |-> <<"4", "2">>, exp |-> -1])
      [] id = s_string -> ArgString(<<"b", "l", "a">>)
      [] OTHER -> ArgBool(FALSE)

\* the ids of the groups of the line
GroupIds == {groups[k].id : k \in 1..Len(groups)}

\* C12: order independence.  For a command with the parameters bool, int,
\* float and string and a positional value, the line made of any selection
\* of the groups `--bool`, `--int V`, `--float V`, `--string V` (or their
\* short spellings) and the value token, in any order, runs the handler
\* with a unit whose parameter map and value depend on the selection only:
\* each selected parameter bound to its value under its canonical name, and
\* the positional value set exactly when the value token is on the line.
C12_OrderIndependence ==
    (pc = "done" /\ cli = BuildCli(MixedValueBuilder)) =>
        /\ IsOk
        /\ Len(calls) = 1
        /\ calls[1] = [handler |-> "cmd_handler", ctx |-> ctx]
        /\ Len(ctx.units) = 2
        /\ ctx.units[2].parameters =
              [n \in GroupIds \cap {s_bool, s_int, s_float, s_string} |->
                  [param |-> Commands(cli)[s_cmd].parameters[n], value |-> GroupValue(n)]]
        /\ ctx.units[2].value =
              IF <<"v", "a", "l", "u", "e">> \in GroupIds
              THEN Some(GroupValue(<<"v", "a", "l", "u", "e">>)) ELSE None

\* `cmd --float 4.2 off --bool ...`: the value token stands between groups
C12_Witness ==
    /\ pc = "done"
    /\ Len(groups) = 5
    /\ groups[1].id = s_float
    /\ groups[2].id = <<"v", "a", "l", "u", "e">>
    /\ groups[3].id = s_bool
    /\ IsOk
    /\ ctx.units[2].value = Some(ArgBool(FALSE))
    /\ DOMAIN ctx.units[2].parameters = {s_bool, s_int, s_float, s_string}

IsQuote(c) == c \in {"'", "\""}

NoQuotes(s) == \A k \in 1..Len(s) : ~IsQuote(s[k])

RECURSIVE WordsOf(_, _)
\* the whitespace-separated words of a text, cur being the word in progress
WordsOf(s, cur) ==
    IF s = <<>> THEN (IF cur = <<>> THEN <<>> ELSE <<cur>>)
    ELSE IF IsWhitespace(Head(s))
         THEN (IF cur = <<>> THEN <<>> ELSE <<cur>>) \o WordsOf(Tail(s), <<>>)
         ELSE WordsOf(Tail(s), Append(cur, Head(s)))

\* split_line has been run to its end on the line
SplitDone == pc = "done" /\ cli = BuildCli(CliBuilderNew)

\* C13: tokenizer round trip.  A line of unquoted words separated by
\* whitespace yields exactly those words in order; on a line
\* `pre "body" post` (either quote character, pre and post being unquoted
\* words set off by whitespace, body free of the opening quote character
\* but possibly holding whitespace and the other quote) the quoted word is
\* yielded as body, without its quotes, between the words of pre and post.
C13_TokenizerRoundTrip ==
    SplitDone =>
        /\ NoQuotes(line) => ArgsOf(items) = WordsOf(line, <<>>)
        /\ \A i \in 1..Len(line) : \A j \in (i + 1)..Len(line) :
              LET pre == SubSeq(line, 1, i - 1)
                  body == SubSeq(line, i + 1, j - 1)
                  post == SubSeq(line, j + 1, Len(line))
              IN  (/\ IsQuote(line[i]) /\ line[j] = line[i]
                   /\ NoQuotes(pre) /\ (pre = <<>> \/ IsWhitespace(pre[Len(pre)]))
                   /\ \A k \in 1..Len(body) : body[k] # line[i]
                   /\ NoQuotes(post) /\ (post = <<>> \/ IsWhitespace(post[1])))
                  => ArgsOf(items) = WordsOf(pre, <<>>) \o <<body>> \o WordsOf(post, <<>>)

\* C14: lenient quote recovery.  On a line `pre "rest` whose quote is never
\* closed (pre being unquoted words set off by whitespace, rest free of the
\* opening quote character) the word in progress is still yielded: the
\* tokens are the words of pre and then rest, up to the end of the line.
C14_UnclosedQuote ==
    SplitDone =>
        \A i \in 1..Len(line) :
            LET pre == SubSeq(line, 1, i - 1)
                rest == SubSeq(line, i + 1, Len(line))
            IN  (/\ IsQuote(line[i])
                 /\ NoQuotes(pre) /\ (pre = <<>> \/ IsWhitespace(pre[Len(pre)]))
                 /\ \A k \in 1..Len(rest) : rest[k] # line[i])
                => ArgsOf(items) = WordsOf(pre, <<>>) \o <<rest>>

\* C15: end-of-line emission.  When the line ends inside an unquoted word,
\* that word is the last token yielded, whatever its last character is.
C15_EndOfLineWord ==
    (SplitDone /\ line # <<>> /\ NoQuotes(line) /\ ~IsWhitespace(line[Len(line)])) =>
        /\ items # <<>>
        /\ items[Len(items)].arg = WordsOf(line, <<>>)[Len(WordsOf(line, <<>>))]

RECURSIVE CharBoundaries(_)
\* the byte offsets at which a character of the text starts, and its end
CharBoundaries(s) ==
    IF s = <<>> THEN {0}
    ELSE {ByteLen(s)} \cup CharBoundaries(SubSeq(s, 1, Len(s) - 1))

\* the character of the line at byte offset o
CharAt(o) == Slice(line, o, o + 1)

\* the k-th token was opened by a quote: the character before its span is
\* a quote character that lies after the span of the token before it
OpenedByQuote(k) ==
    /\ items[k].span.begin >= 1
    /\ \E q \in {"'", "\""} : CharAt(items[k].span.begin - 1) = <<q>>
    /\ k > 1 => items[k - 1].span.end < items[k].span.begin - 1

\* C16: span exactness.  Every (token, span) pair yielded has token =
\* line[span.begin .. span.end] with 0 <= begin <= end <= line.len(), both
\* offsets on character boundaries; the spans of successive tokens are
\* disjoint and strictly increasing; the quotes of a quoted word lie
\* outside its span (the opening quote just before it, the closing quote,
\* if any, just after it, and none of that character inside), and an
\* unquoted word holds no whitespace and does not start with a quote.
C16_SpanExactness ==
    (cli = BuildCli(CliBuilderNew)) =>
        \A k \in 1..Len(items) :
            LET b == items[k].span.begin
                e == items[k].span.end
            IN  /\ items[k].arg = Slice(line, b, e)
                /\ 0 <= b /\ b <= e /\ e <= ByteLen(line)
                /\ {b, e} \subseteq CharBoundaries(line)
                /\ ByteLen(items[k].arg) = e - b
                /\ k > 1 => items[k - 1].span.end < b
                /\ IF OpenedByQuote(k)
                   THEN /\ \A n \in 1..Len(items[k].arg) : <<items[k].arg[n]>> # CharAt(b - 1)
                        /\ e = ByteLen(line) \/ CharAt(e) = CharAt(b - 1)
                   ELSE /\ \A n \in 1..Len(items[k].arg) : ~IsWhitespace(items[k].arg[n])
                        /\ items[k].arg # <<>> /\ ~IsQuote(items[k].arg[1])

\* `"a'" e'a`: a quoted word holding the other quote, then a word that
\* starts with a two-byte character
C16_Witness ==
    /\ SplitDone
    /\ line = <<"\"", "'", "\"", "e'", "a">>
    /\ Len(items) = 2
    /\ items[1] = [arg |-> <<"'">>, span |-> [begin |-> 1, end |-> 2]]
    /\ items[2] = [arg |-> <<"e'", "a">>, span |-> [begin |-> 3, end |-> 6]]

\* parse_arg has returned
Parsed == IsSome(coerced)

TrueTexts == {<<"t", "r", "u", "e">>, <<"y", "e", "s">>, <<"1">>, <<"o", "n">>}

FalseTexts == {<<"f", "a", "l", "s", "e">>, <<"n", "o">>, <<"0">>, <<"o", "f", "f">>}

\* C17: Bool coercion totality.  parse_arg(Bool, t) returns Bool(true)
\* exactly for the texts true, yes, 1, on, Bool(false) exactly for false,
\* no, 0, off, and an error for every other text, those that differ from
\* these only in case included.
C17_BoolCoercion ==
    (Parsed /\ coerce_type = "Bool") =>
        /\ coerce_arg \in TrueTexts <=> Unwrap(coerced) = ParseOk(ArgBool(TRUE))
        /\ coerce_arg \in FalseTexts <=> Unwrap(coerced) = ParseOk(ArgBool(FALSE))
        /\ coerce_arg \notin TrueTexts \cup FalseTexts <=> ~Unwrap(coerced).ok

\* `No` is not a Bool text
C17_Witness ==
    /\ Parsed
    /\ coerce_type = "Bool"
    /\ coerce_arg = <<"N", "o">>
    /\ ~Unwrap(coerced).ok

\* the digits of a text after its sign
DigitsOf(t) == IF StartsWith(t, <<"-">>) THEN Tail(t) ELSE t

\* the decimal text of an integer: digits without leading zeros, with a
\* minus sign for a negative number
IsDecimalText(t) ==
    /\ DigitsOf(t) # <<>>
    /\ AllDigits(DigitsOf(t))
    /\ Len(DigitsOf(t)) = 1 \/ DigitsOf(t)[1] # "0"
    /\ ~(StartsWith(t, <<"-">>) /\ DigitsOf(t) = <<"0">>)

\* the integer of a decimal text is within i64::MIN ..= i64::MAX
InI64(t) == MagLE(DigitsOf(t), IF StartsWith(t, <<"-">>) THEN I64MinMag ELSE I64MaxMag)

\* the text does not have the form [sign] digits
NotNumeric(t) ==
    LET ds == IF StartsWith(t, <<"-">>) \/ StartsWith(t, <<"+">>) THEN Tail(t) ELSE t
    IN  ds = <<>> \/ ~AllDigits(ds)

\* C18: Int round trip.  For the decimal text of every 64-bit signed
\* integer n, negative numbers and the bounds i64::MIN and i64::MAX
\* included, parse_arg(Int, text) returns Int(n); decimal text of a number
\* outside the 64-bit signed range and text that is no number return an
\* error.
C18_IntRoundTrip ==
    (Parsed /\ coerce_type = "Int") =>
        /\ (IsDecimalText(coerce_arg) /\ InI64(coerce_arg)) =>
              Unwrap(coerced) = ParseOk([t |-> "Int",
                                         v |-> [neg |-> StartsWith(coerce_arg, <<"-">>),
                                                mag |-> DigitsOf(coerce_arg)]])
        /\ (IsDecimalText(coerce_arg) /\ ~InI64(coerce_arg)) => ~Unwrap(coerced).ok
        /\ NotNumeric(coerce_arg) => ~Unwrap(coerced).ok

\* i64::MIN
C18_Witness ==
    /\ Parsed
    /\ coerce_type = "Int"
    /\ coerce_arg = <<"-">> \o I64MinMag
    /\ Unwrap(coerced) = ParseOk([t |-> "Int", v |-> [neg |-> TRUE, mag |-> I64MinMag]])

\* C19: flag-looking value guard.  parse_arg rejects a text that starts
\* with `-` when the type is Bool or String: it returns the not-a-value
\* error and no value, so parse_arg(String, "-x") is never String("-x").
C19_FlagLookingValue ==
    (Parsed /\ coerce_type \in {"Bool", "String"} /\ StartsWith(coerce_arg, <<"-">>)) =>
        Unwrap(coerced) = ParseErr("Seems it is not a value")

\* the lookup keys a ParameterBuilder asks for
KeysOf(pb) == {pb.name} \cup Range(pb.aliases)

\* C20: parameter key uniqueness.  After any sequence of
\* CommandBuilder::parameter calls that did not panic, no two of the
\* parameters registered share a lookup key (canonical name or alias), and
\* every key still leads to the parameter it was registered for.
C20_ParameterKeysUnique ==
    (pc = "build" /\ ~builder.panic) =>
        /\ \A i \in DOMAIN builder.registered : \A j \in DOMAIN builder.registered :
              i # j => KeysOf(builder.registered[i]) \cap KeysOf(builder.registered[j]) = {}
        /\ \A i \in DOMAIN builder.registered : \A k \in KeysOf(builder.registered[i]) :
              /\ k \in DOMAIN builder.parameters
              /\ builder.parameters[k] = MakeParameter(builder.registered[i])

\* CliBuilder::build has been called
Built == pc = "built"

\* the keys a CommandBuilder declares
CommandKeysOf(cb) == {cb.name} \cup Range(cb.aliases)

\* every key declared by a builder of cbs leads, in the map built from
\* them, to the command of that builder
KeysResolve(cbs, commands) ==
    \A i \in DOMAIN cbs : \A k \in CommandKeysOf(cbs[i]) :
        /\ k \in DOMAIN commands
        /\ commands[k].description = cbs[i].description

\* no two builders of cbs declare the same key
KeysDistinct(cbs) ==
    \A i \in DOMAIN cbs : \A j \in DOMAIN cbs :
        i # j => CommandKeysOf(cbs[i]) \cap CommandKeysOf(cbs[j]) = {}

\* C21: command key uniqueness.  After a build that did not panic, no two
\* commands registered under one parent (the top level, or a command)
\* declare the same key, whichever was added first, and every key of a
\* parent's map leads to the command that declared it.
C21_CommandKeysUnique ==
    (Built /\ ~cli.panic) =>
        /\ KeysDistinct(cli_builder.commands)
        /\ KeysResolve(cli_builder.commands, Commands(cli))
        /\ \A i \in DOMAIN cli_builder.commands :
              /\ KeysDistinct(cli_builder.commands[i].subcommands)
              /\ KeysResolve(cli_builder.commands[i].subcommands,
                             Commands(cli)[cli_builder.commands[i].name].subcommands)

\* a builder with no value type, no handler and no subcommands
Vacuous(cb) == IsNone(cb.value) /\ IsNone(cb.handler) /\ cb.subcommands = <<>>

\* some command of the tree, at the top level or below it, is vacuous
SomeVacuous ==
    \E i \in DOMAIN cli_builder.commands :
        \/ Vacuous(cli_builder.commands[i])
        \/ \E j \in DOMAIN cli_builder.commands[i].subcommands :
              Vacuous(cli_builder.commands[i].subcommands[j])

\* C22: vacuous-command rejection.  Building a tree in which some command,
\* at the top level or below it, has no value type, no handler and no
\* subcommands panics; a tree all of whose commands have at least one of
\* the three (and whose keys do not collide) is built without a panic.
C22_VacuousCommand ==
    Built =>
        /\ SomeVacuous => cli.panic
        /\ (/\ ~SomeVacuous
            /\ KeysDistinct(cli_builder.commands)
            /\ \A i \in DOMAIN cli_builder.commands :
                  KeysDistinct(cli_builder.commands[i].subcommands))
           => ~cli.panic

\* a command with a handler whose only subcommand is vacuous: the build panics
C22_Witness ==
    /\ Built
    /\ cli.panic
    /\ Len(cli_builder.commands) = 1
    /\ IsSome(cli_builder.commands[1].handler)
    /\ Len(cli_builder.commands[1].subcommands) = 1
    /\ Vacuous(cli_builder.commands[1].subcommands[1])

\* C23: CommandBuilder::subcommand panics when the command added has no
\* handler or when a subcommand of that name was added before: a builder
\* that did not panic holds only subcommands with a handler and with
\* distinct names.
C23_SubcommandPanics ==
    (pc = "command" /\ ~builder.panic) =>
        /\ \A i \in DOMAIN builder.subcommands : IsSome(builder.subcommands[i].handler)
        /\ \A i \in DOMAIN builder.subcommands : \A j \in DOMAIN builder.subcommands :
              i # j => builder.subcommands[i].name # builder.subcommands[j].name

\* the slice &line[b..e] can be taken: the offsets are in order, within the
\* line and on character boundaries
Sliceable(ln, b, e) ==
    /\ 0 <= b /\ b <= e /\ e <= ByteLen(ln)
    /\ {b, e} \subseteq CharBoundaries(ln)

\* C24: no panic on input.  On every tree the builder accepts and every
\* line, wherever exec_line stands: in the states ReadNext and
\* ParametersReaded pos is an index of ctx.units; in ParametersReaded the
\* queue is not empty, so that its front and its back can be unwrapped;
\* every slice split_line took of the line read so far, and the slice from
\* the start of the word in progress, can be taken; a context handed to a
\* handler has a unit; and a finished call has returned Ok or Err.
C24_NoPanicOnInput ==
    pc \in {"loop", "done"} =>
        /\ state.tag \in {"ReadNext", "ParametersReaded"} =>
              (0 <= pos /\ pos < Len(ctx.units))
        /\ state.tag = "ParametersReaded" => state.params # <<>>
        /\ \A split \in {SplitLine(line)} : \A k \in DOMAIN split :
              Sliceable(line, split[k].span.begin, split[k].span.end)
        /\ args.st.tag = "StartWord" => Sliceable(line, args.st.start, ByteLen(line))
        /\ \A k \in DOMAIN calls : calls[k].ctx.units # <<>>
        /\ Done => (IsSome(result) /\ (Unwrap(result).ok \/ Unwrap(result).error \in Errors))

\* inside a subcommand, two parameters wait for their values
C24_Witness ==
    /\ pc = "loop"
    /\ state.tag = "ParametersReaded"
    /\ Len(state.params) = 2
    /\ pos = 2
    /\ Len(ctx.units) = 3

\* the locals of exec_line as its first lines set them up
FreshLocals ==
    /\ ctx = [units |-> <<RootUnit>>]
    /\ state = ReadFirstState
    /\ pos = 1
    /\ args = IterStart

\* C25: no parser state across calls.  Through any sequence of exec_line
\* calls on one Cli, failed or not, the command tree stays as it was built,
\* every call enters its loop with a fresh Context holding the root unit
\* only, in state ReadFirst, and a finished call has built the Context,
\* made the handler call and returned the result that the same line gives
\* on its first call.
C25_NoStateAcrossCalls ==
    /\ [](cli \in Clis)
    /\ [][cli' = cli]_vars
    /\ []((pc = "loop" /\ fed = 0) => FreshLocals)
    /\ [](Done => \E run \in {ExecTokens(cli, TokensOf(line))} :
             /\ Unwrap(result) = run.result
             /\ ctx = run.ctx
             /\ calls = (IF IsSome(run.call)
                         THEN <<[handler |-> Unwrap(run.call), ctx |-> run.ctx]>> ELSE <<>>))

\* a second call binds a value to a parameter and runs a handler
C25_Witness ==
    /\ Done
    /\ served = 1
    /\ IsOk
    /\ calls # <<>>
    /\ \E k \in DOMAIN ctx.units : ctx.units[k].parameters # EmptyMap

\* the unit of the frame exec_line stands in: the root until a command is
\* read, ctx.units[pos] from then on
CurrentUnit == IF state.tag = "ReadFirst" THEN ctx.units[1] ELSE ctx.units[pos + 1]

\* C26: help on error.  When print_help is enabled and exec_line fails, the
\* help printed is that of the current node, the command of the frame in
\* which the failing token was read, and the error is returned.
C26_HelpOnError ==
    (Done /\ cli.need_print_help /\ IsSome(result) /\ ~Unwrap(result).ok) =>
        printed = (IF cli.need_print_error
                   THEN <<[kind |-> "error", error |-> Unwrap(result).error]>> ELSE <<>>)
                  \o <<HelpOf(CurrentUnit.command.node.subcommands)>>

\* the node built for the help pseudo-command
IsHelpNode(n) ==
    /\ n.exec = Some("help_handler")
    /\ n.description = Some("This help")
    /\ n.subcommands = EmptyMap

\* help is registered under the node n exactly when n has a subcommand
HelpUnder(n) ==
    IF DOMAIN n.subcommands \ {s_help} # {}
    THEN s_help \in DOMAIN n.subcommands /\ IsHelpNode(n.subcommands[s_help])
    ELSE n.subcommands = EmptyMap

\* C27: the help pseudo-command.  With print_help enabled the built tree
\* holds a help command at the top level and under every command that has
\* a subcommand, and nowhere else.  `help` and `cmd help` return Ok; a call
\* that ends on a help command returns Ok with the default result, calls
\* help_handler once and prints the help of the unit before the last one,
\* the node that holds that help entry (the root for `help`, cmd for
\* `cmd help`), never that of the help command itself.
C27_HelpCommand ==
    cli.need_print_help =>
        /\ s_help \in DOMAIN Commands(cli)
        /\ IsHelpNode(Commands(cli)[s_help])
        /\ \A k1 \in DOMAIN Commands(cli) :
              /\ HelpUnder(Commands(cli)[k1])
              /\ \A k2 \in DOMAIN Commands(cli)[k1].subcommands :
                    HelpUnder(Commands(cli)[k1].subcommands[k2])
        /\ (Done /\ TokensOf(line) \in {<<s_help>>, <<s_cmd, s_help>>}) =>
              (IsOk /\ LastUnit.command.name = s_help)
        /\ (Done /\ IsOk /\ LastUnit.command.name = s_help) =>
              /\ Len(ctx.units) >= 2
              /\ result = Some(Ok(DefaultResult))
              /\ calls = <<[handler |-> "help_handler", ctx |-> ctx]>>
              /\ s_help \in DOMAIN ctx.units[Len(ctx.units) - 1].command.node.subcommands
              /\ printed = <<HelpOf(ctx.units[Len(ctx.units) - 1].command.node.subcommands)>>
              /\ printed # <<HelpOf(LastUnit.command.node.subcommands)>>
              /\ Len(ctx.units) = 2 => printed = <<HelpOf(Commands(cli))>>
              /\ Len(ctx.units) = 3 =>
                    printed = <<HelpOf(Commands(cli)[ctx.units[2].command.name].subcommands)>>

\* `cmd help` has run: the subcommands of cmd, help among them, are listed
C27_Witness ==
    /\ Done
    /\ cli.need_print_help
    /\ TokensOf(line) = <<s_cmd, s_help>>
    /\ IsOk
    /\ printed = <<HelpOf(Commands(cli)[s_cmd].subcommands)>>
    /\ DOMAIN Commands(cli)[s_cmd].subcommands = {s_sub, s_help}

\* the step reads the token `--name` in state ReadNext
LongFlagStep == TokenStep /\ state.tag = "ReadNext" /\ StartsWith(TokenRead, <<"-", "-">>)

\* the name of a `--name` token
LongFlagName(t) == SubSeq(t, 3, Len(t))

\* C28: the long-flag rule of ReadNext.  A token `--name` is looked up by
\* its exact name among the parameter keys of the current command.  A Bool
\* parameter is bound to true under its canonical name in the current
\* unit, nothing else changes and the state stays ReadNext; a non-Bool
\* parameter binds nothing, the state becomes ParametersReaded with that
\* one parameter queued; an unknown name ends the call with NotParameter.
C28_LongFlag ==
    [][LongFlagStep =>
        LET name == LongFlagName(TokenRead)
            cmd == ctx.units[pos + 1].command.node
            old == ctx.units[pos + 1].parameters
            new == ctx'.units[pos + 1].parameters
        IN  IF name \notin DOMAIN cmd.parameters
            THEN /\ pc' = "done"
                 /\ result' = Some(Err("NotParameter"))
                 /\ ctx' = ctx
                 /\ calls' = <<>>
            ELSE IF cmd.parameters[name].value_type = "Bool"
            THEN /\ pc' = "loop" /\ result' = None
                 /\ state' = ReadNextState /\ pos' = pos
                 /\ DOMAIN new = DOMAIN old \cup {cmd.parameters[name].name}
                 /\ new[cmd.parameters[name].name]
                      = [param |-> cmd.parameters[name], value |-> ArgBool(TRUE)]
                 /\ \A k \in DOMAIN old \ {cmd.parameters[name].name} : new[k] = old[k]
                 /\ ctx' = [ctx EXCEPT !.units[pos + 1].parameters = new]
            ELSE /\ pc' = "loop" /\ result' = None
                 /\ state' = ParametersReadedState(<<cmd.parameters[name]>>)
                 /\ pos' = pos
                 /\ ctx' = ctx]_vars

\* `cmd --bb` has been read: the Bool parameter is bound under its
\* canonical name bool, not under the alias typed
C28_Witness ==
    /\ pc = "loop"
    /\ state.tag = "ReadNext"
    /\ TokensOf(line) = <<s_cmd, <<"-", "-", "b", "b">>>>
    /\ DOMAIN ctx.units[2].parameters = {s_bool}
    /\ ctx.units[2].parameters[s_bool].value = ArgBool(TRUE)

\* the positions of a cluster whose character is no parameter key of cmd
UnknownPositions(cmd, chars) == {k \in 1..Len(chars) : <<chars[k]>> \notin DOMAIN cmd.parameters}

\* the least element of a non-empty set of numbers
Least(S) == CHOOSE k \in S : \A j \in S : k <= j

\* C29: short-cluster failure.  A `-xyz` token holding a character that is
\* no parameter key of the current command ends the call with NotParameter
\* in the very step that reads it: no handler is called, no token after it
\* is read, and what is bound stops at the first such character (the Bool
\* parameters of the characters before it, nothing of those after it); a
\* finished call takes no further step, so no handler ever gets that
\* Context.
C29_ClusterFailure ==
    [][/\ pc = "done" => UNCHANGED vars
       /\ (pc = "loop" /\ state.tag = "ReadNext" /\ fed' = fed + 1) =>
            \A tokens \in {TokensOf(line')} :
            (Len(tokens) = Len(TokensOf(line)) + 1 /\ IsSome(ClusterChars(tokens[Len(tokens)]))) =>
            \A chars \in {Unwrap(ClusterChars(tokens[Len(tokens)]))} :
            \A cmd \in {ctx.units[pos + 1].command.node} :
            \A unknown \in {UnknownPositions(cmd, chars)} :
            unknown # {} =>
                LET old == ctx.units[pos + 1].parameters
                    new == ctx'.units[pos + 1].parameters
                    bools == {cmd.parameters[<<chars[k]>>].name : k \in
                                {j \in 1..(Least(unknown) - 1) :
                                    cmd.parameters[<<chars[j]>>].value_type = "Bool"}}
                IN  /\ pc' = "done"
                    /\ result' = Some(Err("NotParameter"))
                    /\ calls = <<>> /\ calls' = <<>>
                    /\ DOMAIN new = DOMAIN old \cup bools
                    /\ \A n \in bools : new[n].value = ArgBool(TRUE)
                    /\ \A n \in DOMAIN old \ bools : new[n] = old[n]
                    /\ ctx' = [ctx EXCEPT !.units[pos + 1].parameters = new]]_vars

\* `cmd -bis` on a tree where b and i are keys and s is not: the call has
\* failed at s, after b was bound
C29_Witness ==
    /\ Done
    /\ IsErr("NotParameter")
    /\ cli.need_print_help
    /\ TokensOf(line) = <<s_cmd, <<"-", "b", "i", "s">>>>
    /\ DOMAIN ctx.units[2].parameters = {s_bool}
    /\ calls = <<>>

\* C30: the pending-queue invariant.  Whenever the state is
\* ParametersReaded the queue is not empty and holds only parameters of a
\* type other than Bool that belong to the command of the current frame;
\* so the end-of-input check never lets a pending Bool parameter through:
\* a call that ends in that state has failed and called no handler.
C30_PendingQueue ==
    (pc \in {"loop", "done"} /\ state.tag = "ParametersReaded") =>
        /\ state.params # <<>>
        /\ \A k \in DOMAIN state.params :
              /\ state.params[k].value_type # "Bool"
              /\ state.params[k] \in Range(ctx.units[pos + 1].command.node.parameters)
        /\ PendingCheck(Locals) \in {Some("ParserError"), Some("ParameterValueMissed")}
        /\ Done => (IsSome(result) /\ ~Unwrap(result).ok /\ calls = <<>>)

\* `cmd sub -bis`: the Bool parameter of the cluster is bound, the two
\* others wait in the queue in the order typed
C30_Witness ==
    /\ pc = "loop"
    /\ state.tag = "ParametersReaded"
    /\ TokensOf(line) = <<s_cmd, s_sub, <<"-", "b", "i", "s">>>>
    /\ state.params = <<ctx.units[3].command.node.parameters[s_int],
                        ctx.units[3].command.node.parameters[s_string]>>
    /\ DOMAIN ctx.units[3].parameters = {s_bool}

\* C31: alias kinds.  A key of one character is usable only in the short
\* form and a longer key only in the long form: a ReadNext step reading
\* `--a`, a being a single character, resolves no parameter and returns
\* NotParameter, and a step reading a `-xyz` cluster whose text xyz is a
\* key of the current command resolves that parameter only if each of its
\* characters is a key as well.
C31_AliasKinds ==
    [][/\ (LongFlagStep /\ Len(LongFlagName(TokenRead)) = 1) =>
              (pc' = "done" /\ result' = Some(Err("NotParameter")) /\ ctx' = ctx)
       /\ (pc = "loop" /\ state.tag = "ReadNext" /\ fed' = fed + 1) =>
            \A tokens \in {TokensOf(line')} :
            (Len(tokens) = Len(TokensOf(line)) + 1 /\ IsSome(ClusterChars(tokens[Len(tokens)]))) =>
            \A chars \in {Unwrap(ClusterChars(tokens[Len(tokens)]))} :
            \A cmd \in {ctx.units[pos + 1].command.node} :
                (Len(chars) >= 2 /\ UnknownPositions(cmd, chars) # {}) =>
                    (pc' = "done" /\ result' = Some(Err("NotParameter")))]_vars

\* the Context c with the unit at index k (counted from 1) named `name`
Respell(c, k, name) ==
    IF k \in DOMAIN c.units THEN [c EXCEPT !.units[k].command.name = name] ELSE c

\* the finished call on a line that spells the last command of `path` by
\* `alias` has the result of the line spelling it by its name, and the same
\* handler call and Context but for the name of that command's unit
CommandAliasAgrees(t, path, alias) ==
    (/\ Len(t) >= Len(path)
     /\ SubSeq(t, 1, Len(path)) = [path EXCEPT ![Len(path)] = alias]) =>
        \E run \in {ExecTokens(cli, path \o SubSeq(t, Len(path) + 1, Len(t)))} :
            /\ Unwrap(result) = run.result
            /\ ctx = Respell(run.ctx, Len(path) + 1, alias)
            /\ calls = (IF IsSome(run.call)
                        THEN <<[handler |-> Unwrap(run.call),
                                ctx |-> Respell(run.ctx, Len(path) + 1, alias)]>>
                        ELSE <<>>)

\* C32: command aliases.  For every command of the tree and every alias
\* registered for it, a line spelling the command by the alias has the
\* result, the handler call, the bound parameters and the value of the line
\* spelling it by its canonical name; the two Contexts differ only in the
\* name kept in that command's unit, which is the spelling typed.
C32_CommandAliases ==
    Done =>
        \A b \in Builders : BuildCli(b) = cli =>
            \A cp \in CommandPaths(b) : \A alias \in Range(cp.cb.aliases) :
                CommandAliasAgrees(TokensOf(line), cp.path, alias)

\* C33: the frame-index invariant.  During exec_line units[0] is the
\* implicit root unit; in the states ReadNext and ParametersReaded pos is
\* the index of the last unit; the command of every later unit is the child
\* of the command of the unit before it that is registered under the name
\* the unit keeps; and a step of the loop never removes a unit or replaces
\* the command of one.
C33_FrameIndex ==
    /\ [](pc \in {"loop", "done"} =>
            /\ ctx.units # <<>>
            /\ ctx.units[1].command = [name |-> cli.root.name, node |-> cli.root.command]
            /\ state.tag \in {"ReadNext", "ParametersReaded"} => pos = Len(ctx.units) - 1
            /\ \A i \in 2..Len(ctx.units) :
                  /\ ctx.units[i].command.name
                        \in DOMAIN ctx.units[i - 1].command.node.subcommands
                  /\ ctx.units[i].command.node
                        = ctx.units[i - 1].command.node.subcommands[ctx.units[i].command.name])
    /\ [][pc = "loop" =>
            /\ Len(ctx'.units) >= Len(ctx.units)
            /\ \A i \in DOMAIN ctx.units : ctx'.units[i].command = ctx.units[i].command]_vars

\* two levels down: root, cmd, sub, with pos at sub
C33_Witness ==
    /\ pc = "loop"
    /\ state.tag = "ReadNext"
    /\ Len(ctx.units) = 3
    /\ pos = 2
    /\ ctx.units[3].command.name = s_sub
    /\ ctx.units[2].parameters # EmptyMap

\* the bindings of the unit u are sound for its command
SoundUnit(u) ==
    /\ \A k \in DOMAIN u.parameters :
          /\ u.parameters[k].param \in Range(u.command.node.parameters)
          /\ k = u.parameters[k].param.name
          /\ u.parameters[k].value.t = u.parameters[k].param.value_type
          /\ u.parameters[k].param.value_type = "Bool" => u.parameters[k].value = ArgBool(TRUE)
    /\ IsSome(u.value) =>
          /\ IsSome(u.command.node.value)
          /\ Unwrap(u.value).t = Unwrap(u.command.node.value)

\* C34: type soundness of bindings.  In every Context exec_line builds or
\* hands to a handler, each key of a unit's parameter map is the canonical
\* name of a parameter registered on the unit's command, the value bound
\* has the variant of the parameter's type (true for a Bool parameter), and
\* a unit has a value only if its command declares a value type, the value
\* then being of that type's variant.
C34_TypeSoundness ==
    pc \in {"loop", "done"} =>
        /\ \A i \in DOMAIN ctx.units : SoundUnit(ctx.units[i])
        /\ \A c \in DOMAIN calls : \A i \in DOMAIN calls[c].ctx.units :
              SoundUnit(calls[c].ctx.units[i])

\* a handler got a unit with an Int parameter bound through an alias and
\* an Int value
C34_Witness ==
    /\ Done
    /\ IsOk
    /\ calls # <<>>
    /\ \E i \in DOMAIN ctx.units :
          /\ s_int \in DOMAIN ctx.units[i].parameters
          /\ ctx.units[i].parameters[s_int].value.t = "Int"
          /\ IsSome(ctx.units[i].value)
          /\ Unwrap(ctx.units[i].value).t = "Int"

\* C35: the frame effect of descending.  A step of the loop leaves every
\* unit but the last as it is, and either keeps the number of units or
\* appends one unit, with nothing bound yet, after the units there were;
\* so once a subcommand unit is pushed the parameters and the value of the
\* units before it never change again, and the root unit stays empty.
C35_FrameEffect ==
    /\ [](pc \in {"loop", "done"} =>
            (ctx.units[1].parameters = EmptyMap /\ IsNone(ctx.units[1].value)))
    /\ [][pc = "loop" =>
            /\ \A i \in 1..(Len(ctx.units) - 1) : ctx'.units[i] = ctx.units[i]
            /\ \/ Len(ctx'.units) = Len(ctx.units)
               \/ /\ Len(ctx'.units) = Len(ctx.units) + 1
                  /\ ctx'.units[Len(ctx.units)] = ctx.units[Len(ctx.units)]
                  /\ ctx'.units[Len(ctx'.units)].parameters = EmptyMap
                  /\ IsNone(ctx'.units[Len(ctx'.units)].value)]_vars

\* after the descent into sub a value was bound to sub; what cmd had bound
\* before is still there
C35_Witness ==
    /\ pc = "loop"
    /\ Len(ctx.units) = 3
    /\ ctx.units[2].parameters # EmptyMap
    /\ IsNone(ctx.units[2].value)
    /\ IsSome(ctx.units[3].value)

\* C36: repetition is last-wins and never an error.  A step that supplies
\* a parameter the current unit has bound already, or a positional value
\* the unit has already, succeeds whenever the token can be coerced: the
\* unit then keeps the value supplied last (true for a Bool flag given
\* again; a non-Bool flag given again is queued again), and a token that
\* cannot be coerced fails with ValueParseFailed as it does the first time.
C36_LastWins ==
    [][(pc = "loop" /\ fed' = fed + 1 /\ state.tag # "ReadFirst") =>
        \A tokens \in {TokensOf(line')} :
        Len(tokens) = Len(TokensOf(line)) + 1 =>
        \A t \in {tokens[Len(tokens)]} :
        \A cmd \in {ctx.units[pos + 1].command.node} :
        LET old == ctx.units[pos + 1]
            new == ctx'.units[pos + 1]
        IN  /\ (state.tag = "ParametersReaded" /\ Head(state.params).name \in DOMAIN old.parameters) =>
                  \A parsed \in {ParseArg(Head(state.params).value_type, t)} :
                  IF parsed.ok
                  THEN /\ pc' = "loop"
                       /\ new.parameters[Head(state.params).name].value = parsed.value
                       /\ DOMAIN new.parameters = DOMAIN old.parameters
                  ELSE result' = Some(Err("ValueParseFailed"))
            /\ (/\ state.tag = "ReadNext" /\ IsSome(old.value) /\ IsPlainToken(t)
                /\ t \notin DOMAIN cmd.subcommands) =>
                  \A parsed \in {ParseArg(Unwrap(cmd.value), t)} :
                  IF parsed.ok
                  THEN pc' = "loop" /\ new.value = Some(parsed.value)
                  ELSE result' = Some(Err("ValueParseFailed"))
            /\ (/\ state.tag = "ReadNext" /\ StartsWith(t, <<"-", "-">>)
                /\ LongFlagName(t) \in DOMAIN cmd.parameters
                /\ cmd.parameters[LongFlagName(t)].name \in DOMAIN old.parameters) =>
                  /\ pc' = "loop"
                  /\ IF cmd.parameters[LongFlagName(t)].value_type = "Bool"
                     THEN new.parameters = old.parameters
                     ELSE state' = ParametersReadedState(<<cmd.parameters[LongFlagName(t)]>>)
            /\ (/\ state.tag = "ReadNext" /\ IsSome(ClusterChars(t))
                /\ UnknownPositions(cmd, Unwrap(ClusterChars(t))) = {}) =>
                  /\ pc' = "loop"
                  /\ \A k \in DOMAIN old.parameters : k \in DOMAIN new.parameters
                  /\ \A k \in DOMAIN Unwrap(ClusterChars(t)) :
                        cmd.parameters[<<Unwrap(ClusterChars(t))[k]>>].value_type = "Bool" =>
                          new.parameters[cmd.parameters[<<Unwrap(ClusterChars(t))[k]>>].name].value
                            = ArgBool(TRUE)]_vars

\* `cmd -ss bla 42`: the parameter string was given twice and keeps the
\* value given last
C36_Witness ==
    /\ pc = "loop"
    /\ state.tag = "ReadNext"
    /\ TokensOf(line) = <<s_cmd, <<"-", "s", "s">>, <<"b", "l", "a">>, <<"4", "2">>>>
    /\ ctx.units[2].parameters[s_string].value = ArgString(<<"4", "2">>)

\* the keys a token starting with `-` names: the name of `--name`, the
\* characters of a cluster
KeysNamed(t) ==
    IF StartsWith(t, <<"-", "-">>) THEN {LongFlagName(t)}
    ELSE {<<t[k]>> : k \in 2..Len(t)}

\* C37: a token starting with `-` is never passed over.  Every step that
\* reads such a token in state ReadNext binds a parameter the token names,
\* or queues one, or ends the call with NotParameter; a bare `-` after a
\* command is rejected.
C37_DashTokenActs ==
    [][(pc = "loop" /\ fed' = fed + 1 /\ state.tag = "ReadNext") =>
        \A tokens \in {TokensOf(line')} :
        Len(tokens) = Len(TokensOf(line)) + 1 =>
        \A t \in {tokens[Len(tokens)]} :
        \A cmd \in {ctx.units[pos + 1].command.node} :
        StartsWith(t, <<"-">>) =>
            /\ \/ (pc' = "done" /\ result' = Some(Err("NotParameter")))
               \/ (state'.tag = "ParametersReaded" /\ state'.params # <<>>)
               \/ \E k \in KeysNamed(t) \cap DOMAIN cmd.parameters :
                     /\ cmd.parameters[k].name \in DOMAIN ctx'.units[pos + 1].parameters
                     /\ ctx'.units[pos + 1].parameters[cmd.parameters[k].name].value = ArgBool(TRUE)
            /\ t = <<"-">> => (pc' = "done" /\ result' = Some(Err("NotParameter")))]_vars

\* C38: pending consumption is unconditional.  In state ParametersReaded
\* the token read, whatever it is, is coerced to the type of the parameter
\* at the front of the queue.  If that succeeds the value is bound under
\* the parameter's canonical name in the current unit, no unit is pushed,
\* and the state is ReadNext when the queue is used up, ParametersReaded
\* with the rest of the queue otherwise: a subcommand key is bound as text
\* (`cmd --string sub`), `-5` as the number -5 (`cmd --int -5`).  If it
\* fails the call ends with ValueParseFailed.
C38_PendingConsumption ==
    [][(pc = "loop" /\ fed' = fed + 1 /\ state.tag = "ParametersReaded") =>
        \A tokens \in {TokensOf(line')} :
        Len(tokens) = Len(TokensOf(line)) + 1 =>
        \A t \in {tokens[Len(tokens)]} :
        \A p \in {Head(state.params)} :
        \A parsed \in {ParseArg(p.value_type, t)} :
        LET old == ctx.units[pos + 1].parameters
            new == ctx'.units[pos + 1].parameters
        IN  /\ IF parsed.ok
               THEN /\ pc' = "loop" /\ result' = None /\ pos' = pos
                    /\ DOMAIN new = DOMAIN old \cup {p.name}
                    /\ new[p.name] = [param |-> p, value |-> parsed.value]
                    /\ \A k \in DOMAIN old \ {p.name} : new[k] = old[k]
                    /\ ctx' = [ctx EXCEPT !.units[pos + 1].parameters = new]
                    /\ state' = (IF Tail(state.params) = <<>> THEN ReadNextState
                                 ELSE ParametersReadedState(Tail(state.params)))
               ELSE /\ pc' = "done"
                    /\ result' = Some(Err("ValueParseFailed"))
                    /\ calls' = <<>>
            /\ p.value_type = "String" => (parsed.ok /\ parsed.value = ArgString(t))
            /\ (p.value_type = "Int" /\ t = <<"-", "5">>) =>
                  (parsed.ok /\ parsed.value = ArgInt(TRUE, <<"5">>))
            /\ (p.value_type = "Int" /\ t \in {s_sub, <<"-", "-", "x">>, <<"-", "b">>}) => ~parsed.ok]_vars

\* `cmd -bis -5 sub`: the dash token became the Int value, the subcommand
\* key the String value, and exec_line did not descend
C38_Witness ==
    /\ pc = "loop"
    /\ state.tag = "ReadNext"
    /\ TokensOf(line) = <<s_cmd, <<"-", "b", "i", "s">>, <<"-", "5">>, s_sub>>
    /\ Len(ctx.units) = 2
    /\ s_sub \in DOMAIN ctx.units[2].command.node.subcommands
    /\ ctx.units[2].parameters[s_int].value = ArgInt(TRUE, <<"5">>)
    /\ ctx.units[2].parameters[s_string].value = ArgString(s_sub)

\* C39: a positional value never starts with `-`.  On a command that
\* declares a value type, a step reading a token that begins with `-` in
\* state ReadNext leaves the unit's value as it is and never fails with
\* ValueParseFailed: the token is taken as a flag or a cluster, so that it
\* fails with NotParameter unless the name after `--`, or each character
\* after `-`, is a parameter key; `cmd -5` on a command with an Int value
\* and no parameter key 5 returns NotParameter.
C39_NoDashValue ==
    [][(pc = "loop" /\ fed' = fed + 1 /\ state.tag = "ReadNext") =>
        \A tokens \in {TokensOf(line')} :
        Len(tokens) = Len(TokensOf(line)) + 1 =>
        \A t \in {tokens[Len(tokens)]} :
        \A cmd \in {ctx.units[pos + 1].command.node} :
        (StartsWith(t, <<"-">>) /\ IsSome(cmd.value)) =>
            /\ Len(ctx'.units) = Len(ctx.units)
            /\ ctx'.units[pos + 1].value = ctx.units[pos + 1].value
            /\ result' # Some(Err("ValueParseFailed"))
            /\ (KeysNamed(t) \ DOMAIN cmd.parameters # {}) =>
                  (pc' = "done" /\ result' = Some(Err("NotParameter")) /\ calls' = <<>>)
            /\ (t = <<"-", "5">> /\ Unwrap(cmd.value) = "Int") =>
                  result' = Some(Err("NotParameter"))]_vars

\* `cmd 42 -5` on a command with an Int value: the call failed at -5 and
\* the value is still 42
C39_Witness ==
    /\ Done
    /\ IsErr("NotParameter")
    /\ TokensOf(line) = <<s_cmd, <<"4", "2">>, <<"-", "5">>>>
    /\ ctx.units[2].command.node.value = Some("Int")
    /\ ctx.units[2].value = Some(ArgInt(FALSE, <<"4", "2">>))

\* C40: empty input.  A line without tokens (empty, or whitespace only)
\* never returns Ok: the only unit is the root, which has no handler, and
\* the result is CantExecuteCommand with no handler called.  The unit list
\* is never empty, so the fall-through Ok(Default::default()) is never
\* taken: a call that returned Ok has called a handler.
C40_EmptyInput ==
    /\ cli \in Clis => IsNone(cli.root.command.exec)
    /\ pc \in {"loop", "done"} => ctx.units # <<>>
    /\ (Done /\ IsOk) => calls # <<>>
    /\ (Done /\ ((\A k \in DOMAIN line : IsWhitespace(line[k])) \/ TokensOf(line) = <<>>)) =>
          /\ TokensOf(line) = <<>>
          /\ result = Some(Err("CantExecuteCommand"))
          /\ calls = <<>>
          /\ ctx.units = <<RootUnit>>

\* a line of whitespace only has been run
C40_Witness ==
    /\ Done
    /\ line # <<>>
    /\ \A k \in DOMAIN line : IsWhitespace(line[k])
    /\ IsErr("CantExecuteCommand")

=============================================================================
